---- MODULE Spec2Model ----
(***************************************************************************)
(* Verification model of the email discovery / inference / verification   *)
(* core of EMAIL-SCRAPER (backend/app).                                    *)
(*                                                                         *)
(* Strings that the code takes apart (local parts, person names) are       *)
(* modelled as tuples of one-character strings.  Floating point scores     *)
(* are modelled as exact rationals [n, d] in lowest terms; every           *)
(* comparison the code makes on them is between small fractions and one of *)
(* the literals 0.6, 0.7, 0.75, 0.95, where IEEE doubles and rationals     *)
(* agree.                                                                  *)
(***************************************************************************)
EXTENDS Integers, Sequences, FiniteSets, TLC

VARIABLES
    emails,        \* PatternDetector: argument of learn_from_discovered
    learned,       \* PatternDetector: value returned by learn_from_discovered
    dpc,           \* PatternDetector: "ready" before the call, "done" after
    rec,           \* scoring: the email dict (record) being scored
    smtp,          \* scoring: the SMTPVerificationResult of the record, if any
    decays,        \* scoring: number of apply_decay results stored so far
    gin,           \* EmailGenerator: arguments of generate_candidates
    candidates,    \* EmailGenerator: list returned by generate_candidates
    gpc,           \* EmailGenerator: "ready" before the call, "done" after
    sv,            \* SMTPVerifier.verify: one frame (locals, position) per call
    av,            \* VerificationAggregator.verify: one frame per call
    self_result,   \* VerificationAggregator.result (instance attribute)
    wire,          \* lookups and connections issued so far: <<kind, address>>
    discovered_emails, \* PublicDiscoveryEngine.discovered_emails, in insertion order
    pages_crawled, \* PublicDiscoveryEngine: number of pages fetched and extracted
    seen_on,       \* per address key: number of distinct pages carrying it
    spc,           \* search_domain: position in the pipeline
    all_discovered,\* search_domain: all_discovered (work + personal dicts)
    response,      \* search_domain: what the handler returns
    fetch,         \* WebCrawler.fetch_page: one frame per call
    sem_holders,   \* calls inside the per-domain semaphore of the crawler
    tasks,         \* BulkSMTPVerifier.verify_batch: one task per address
    bsem,          \* BulkSMTPVerifier.semaphore: tasks holding it
    clean_results, \* verify_batch: the list it returns
    bpc,           \* verify_batch: position
    fb,            \* FallbackInferenceEngine.fallback_infer: the call's frame
    ord_in,        \* enforce_response_ordering: its argument
    ord_out,       \* enforce_response_ordering: its result
    company        \* PatternTracker: the company row it updates

detVars == <<emails, learned, dpc>>

scoreVars == <<rec, smtp, decays>>

genVars == <<gin, candidates, gpc>>

verVars == <<sv, av, self_result, wire>>

searchVars ==
    <<discovered_emails, pages_crawled, seen_on, spc, all_discovered, response>>

vars == <<emails, learned, dpc, rec, smtp, decays, gin, candidates, gpc,
          sv, av, self_result, wire,
          discovered_emails, pages_crawled, seen_on, spc, all_discovered, response,
          fetch, sem_holders, tasks, bsem, clean_results, bpc, fb,
          ord_in, ord_out, company>>

crawlVars == <<fetch, sem_holders>>

batchVars == <<tasks, bsem, clean_results, bpc>>

fbVars == <<fb>>

ordVars == <<ord_in, ord_out>>

trackVars == <<company>>

\* what each component leaves alone
detOthers ==
    <<scoreVars, genVars, verVars, searchVars, crawlVars,
      batchVars, fbVars, ordVars, trackVars>>

scoreOthers ==
    <<detVars, genVars, verVars, searchVars, crawlVars,
      batchVars, fbVars, ordVars, trackVars>>

genOthers ==
    <<detVars, scoreVars, verVars, searchVars, crawlVars,
      batchVars, fbVars, ordVars, trackVars>>

verOthers ==
    <<detVars, scoreVars, genVars, searchVars, crawlVars,
      batchVars, fbVars, ordVars, trackVars>>

searchOthers ==
    <<detVars, scoreVars, genVars, verVars, crawlVars,
      batchVars, fbVars, ordVars, trackVars>>

crawlOthers ==
    <<detVars, scoreVars, genVars, verVars, searchVars,
      batchVars, fbVars, ordVars, trackVars>>

batchOthers ==
    <<detVars, scoreVars, genVars, verVars, searchVars,
      crawlVars, fbVars, ordVars, trackVars>>

fbOthers ==
    <<detVars, scoreVars, genVars, verVars, searchVars,
      crawlVars, batchVars, ordVars, trackVars>>

ordOthers ==
    <<detVars, scoreVars, genVars, verVars, searchVars,
      crawlVars, batchVars, fbVars, trackVars>>

trackOthers ==
    <<detVars, scoreVars, genVars, verVars, searchVars,
      crawlVars, batchVars, fbVars, ordVars>>

----------------------------------------------------------------------------
(* Bounds *)

MaxSamples == 4

MaxDecays == 2

MaxCalls == 3

MaxPages == 3

MaxFetches == 2

MaxBatch == 6

MaxRecords == 3

----------------------------------------------------------------------------
(* Exact rationals standing for Python floats *)

RECURSIVE GCD(_, _)
GCD(a, b) == IF b = 0 THEN a ELSE GCD(b, a % b)

Rat(n, d) == LET g == GCD(n, d) IN [n |-> n \div g, d |-> d \div g]

RZero == [n |-> 0, d |-> 1]

ROne == [n |-> 1, d |-> 1]

RMul(x, y) == Rat(x.n * y.n, x.d * y.d)

RAdd(x, y) == Rat(x.n * y.d + y.n * x.d, x.d * y.d)

RSub(x, y) == Rat(x.n * y.d - y.n * x.d, x.d * y.d)

RLt(x, y) == x.n * y.d < y.n * x.d

RLe(x, y) == x.n * y.d <= y.n * x.d

RMin(x, y) == IF RLt(y, x) THEN y ELSE x

----------------------------------------------------------------------------
(* Characters and str.lower() *)

LowerAlphabet ==
    <<"a","b","c","d","e","f","g","h","i","j","k","l",
      "m","n","o","p","q","r","s","t","u","v","w","x","y","z">>

UpperAlphabet ==
    <<"A","B","C","D","E","F","G","H","I","J","K","L",
      "M","N","O","P","Q","R","S","T","U","V","W","X","Y","Z">>

LowerChars == {LowerAlphabet[i] : i \in 1..Len(LowerAlphabet)}

UpperChars == {UpperAlphabet[i] : i \in 1..Len(UpperAlphabet)}

LowerChar(c) ==
    IF c \in UpperChars
    THEN LowerAlphabet[CHOOSE i \in 1..Len(UpperAlphabet) : UpperAlphabet[i] = c]
    ELSE c

LowerStr(s) == [i \in 1..Len(s) |-> LowerChar(s[i])]

----------------------------------------------------------------------------
(* PatternDetector  (inference/pattern_detector.py) *)

NoPattern == "None"

PATTERNS == <<"first.last", "first_last", "first-last", "flast", "f.last">>

PERSONAL_DOMAINS ==
    {"gmail.com", "yahoo.com", "outlook.com", "hotmail.com", "icloud.com",
     "live.com", "me.com"}

LowerDomain(dom) == IF dom = "Gmail.com" THEN "gmail.com" ELSE dom

\* [a-z]{2,} on the slice s[from..to]
LowerRun2(s, from, to) ==
    /\ to - from + 1 >= 2
    /\ \A i \in from..to : s[i] \in LowerChars

\* ^(?P<first>[a-z]{2,})SEP(?P<last>[a-z]{2,})$
MatchFirstSepLast(s, sep) ==
    \E k \in 1..Len(s) :
        /\ s[k] = sep
        /\ LowerRun2(s, 1, k - 1)
        /\ LowerRun2(s, k + 1, Len(s))

\* re.match(pattern_regex, email_local) for the five entries of PATTERNS
PatternMatches(name, s) ==
    CASE name = "first.last" -> MatchFirstSepLast(s, ".")
      [] name = "first_last" -> MatchFirstSepLast(s, "_")
      [] name = "first-last" -> MatchFirstSepLast(s, "-")
      [] name = "flast" -> /\ Len(s) >= 3
                           /\ s[1] \in LowerChars
                           /\ LowerRun2(s, 2, Len(s))
      [] name = "f.last" -> /\ Len(s) >= 4
                            /\ s[1] \in LowerChars
                            /\ s[2] = "."
                            /\ LowerRun2(s, 3, Len(s))
      [] OTHER -> FALSE

IsPersonalEmail(e) == LowerDomain(e.domain) \in PERSONAL_DOMAINS

\* order-preserving filter, as a list comprehension with a condition
RECURSIVE SelectSeqRec(_, _)
SelectSeqRec(s, keep) ==
    IF s = <<>> THEN <<>>
    ELSE IF keep[1] THEN <<Head(s)>> \o SelectSeqRec(Tail(s), Tail(keep))
         ELSE SelectSeqRec(Tail(s), Tail(keep))

\* valid_for_pattern: lower-cased local parts of the non-role, non-personal dicts
ValidForPattern(es) ==
    LET keep == [i \in 1..Len(es) |->
                    ~es[i].is_role_based /\ ~IsPersonalEmail(es[i])]
        kept == SelectSeqRec(es, keep)
    IN [i \in 1..Len(kept) |-> LowerStr(kept[i].local)]

\* matches of one pattern over the eligible local parts
MatchCount(name, locals) ==
    Cardinality({i \in 1..Len(locals) : PatternMatches(name, locals[i])})

RECURSIVE SumCounts(_, _)
SumCounts(locals, k) ==
    IF k = 0 THEN 0 ELSE MatchCount(PATTERNS[k], locals) + SumCounts(locals, k - 1)

TotalMatches(locals) == SumCounts(locals, Len(PATTERNS))

\* max(pattern_matches, key=pattern_matches.get): first key, in insertion
\* (= PATTERNS) order, holding the largest count
DominantIndex(locals) ==
    CHOOSE k \in 1..Len(PATTERNS) :
        /\ \A j \in 1..Len(PATTERNS) :
              MatchCount(PATTERNS[j], locals) <= MatchCount(PATTERNS[k], locals)
        /\ \A j \in 1..(k - 1) :
              MatchCount(PATTERNS[j], locals) < MatchCount(PATTERNS[k], locals)

Refused == [pattern |-> NoPattern, confidence |-> RZero]

DominanceThreshold == Rat(7, 10)

ConfidenceThreshold == Rat(6, 10)

\* a dominance gate that accepts a bare majority
DominanceTooLowMajority(ratio) == RLt(ratio, Rat(1, 2))

\* if dominance_ratio < 0.7
DominanceTooLow(ratio) == RLt(ratio, DominanceThreshold)

\* a detector without sample-size damping
SamplePenaltyNone(n) == ROne

\* sample_penalty = min(len(self.discovered_emails) / 3.0, 1.0)
SamplePenalty(n) == RMin(Rat(n, 3), ROne)

LearnFromDiscovered(es) ==
    LET locals == ValidForPattern(es)
        n == Len(locals)
    IN IF es = <<>> THEN Refused
       ELSE IF n < 1 THEN Refused
       ELSE IF n < 2 THEN Refused
       ELSE IF TotalMatches(locals) = 0 THEN Refused
       ELSE LET k == DominantIndex(locals)
                dominant_count == MatchCount(PATTERNS[k], locals)
                dominance_ratio == Rat(dominant_count, TotalMatches(locals))
                sample_penalty == SamplePenalty(n)
                raw_confidence == Rat(dominant_count, n)
                confidence == RMul(raw_confidence, sample_penalty)
            IN IF DominanceTooLow(dominance_ratio) THEN Refused
               ELSE IF RLt(confidence, ConfidenceThreshold) THEN Refused
               ELSE [pattern |-> PATTERNS[k], confidence |-> confidence]

----------------------------------------------------------------------------
(* Inputs of the detector: dicts {"email": local@domain, "is_role_based": b} *)

Em(local, dom, role) == [local |-> local, domain |-> dom, is_role_based |-> role]

SamplePool ==
    { Em(<<"j","o",".","d","o">>, "acme.io", FALSE),
      Em(<<"J","o",".","D","o">>, "acme.io", FALSE),
      Em(<<"j","o","_","d","o">>, "acme.io", FALSE),
      Em(<<"j","o","-","d","o">>, "acme.io", FALSE),
      Em(<<"j","d","o">>, "acme.io", FALSE),
      Em(<<"j",".","d","o">>, "acme.io", FALSE),
      Em(<<"j","1">>, "acme.io", FALSE),
      Em(<<"i","n","f","o">>, "acme.io", TRUE),
      Em(<<"j","o",".","d","o">>, "gmail.com", FALSE),
      Em(<<"j","d","o">>, "Gmail.com", FALSE) }

SeqsUpTo(S, n) == UNION {[1..k -> S] : k \in 0..n}

DetectorIdle ==
    /\ emails = <<>>
    /\ learned = Refused
    /\ dpc = "idle"

ScoreIdle ==
    /\ rec = [source |-> "none"]
    /\ smtp = [present |-> FALSE]
    /\ decays = 0

GenIdle ==
    /\ gin = [pattern |-> NoPattern]
    /\ candidates = <<>>
    /\ gpc = "idle"

Calls == 1..MaxCalls

\* a verify frame before the call; call c is a call of SMTPVerifier.verify
\* (frame sv[c]) or of VerificationAggregator.verify (frame av[c])
IdleFrame == [pc |-> "idle"]

VerIdle ==
    /\ sv = [c \in Calls |-> IdleFrame]
    /\ av = [c \in Calls |-> IdleFrame]
    /\ self_result = [email |-> <<>>]
    /\ wire = {}

\* addresses as they are spelled on the crawled pages
PageAddressPool ==
    { <<"j", "o", "@", "d", ".", "i", "o">>,
      <<"J", "o", "@", "d", ".", "i", "o">>,
      <<"i", "n", "f", "o", "@", "d", ".", "i", "o">>,
      <<"j", "o", "@", "g", "m", "a", "i", "l", ".", "c", "o", "m">>,
      <<"x", "@", "t", "e", "s", "t", ".", "c", "o", "m">> }

KeyPool == {LowerStr(a) : a \in PageAddressPool}

SearchIdle ==
    /\ discovered_emails = <<>>
    /\ pages_crawled = 0
    /\ seen_on = [k \in KeyPool |-> 0]
    /\ spc = "idle"
    /\ all_discovered = <<>>
    /\ response = [status |-> "none"]

Fetches == 1..MaxFetches

CrawlIdle ==
    /\ fetch = [c \in Fetches |-> IdleFrame]
    /\ sem_holders = 0

BatchIdle ==
    /\ tasks = <<>>
    /\ bsem = 0
    /\ clean_results = <<>>
    /\ bpc = "idle"

FbIdle == fb = IdleFrame

OrdIdle == ord_in = <<>> /\ ord_out = <<>>

TrackIdle == company = [pattern_confidence |-> RZero, metadata |-> <<>>]

\* the components a specification does not exercise stay as constructed
DetOthersIdle ==
    ScoreIdle /\ GenIdle /\ VerIdle /\ SearchIdle /\ CrawlIdle
    /\ BatchIdle /\ FbIdle /\ OrdIdle /\ TrackIdle

ScoreOthersIdle ==
    DetectorIdle /\ GenIdle /\ VerIdle /\ SearchIdle /\ CrawlIdle
    /\ BatchIdle /\ FbIdle /\ OrdIdle /\ TrackIdle

GenOthersIdle ==
    DetectorIdle /\ ScoreIdle /\ VerIdle /\ SearchIdle /\ CrawlIdle
    /\ BatchIdle /\ FbIdle /\ OrdIdle /\ TrackIdle

VerOthersIdle ==
    DetectorIdle /\ ScoreIdle /\ GenIdle /\ SearchIdle /\ CrawlIdle
    /\ BatchIdle /\ FbIdle /\ OrdIdle /\ TrackIdle

SearchOthersIdle ==
    DetectorIdle /\ ScoreIdle /\ GenIdle /\ VerIdle /\ CrawlIdle
    /\ BatchIdle /\ FbIdle /\ OrdIdle /\ TrackIdle

CrawlOthersIdle ==
    DetectorIdle /\ ScoreIdle /\ GenIdle /\ VerIdle /\ SearchIdle
    /\ BatchIdle /\ FbIdle /\ OrdIdle /\ TrackIdle

BatchOthersIdle ==
    DetectorIdle /\ ScoreIdle /\ GenIdle /\ VerIdle /\ SearchIdle
    /\ CrawlIdle /\ FbIdle /\ OrdIdle /\ TrackIdle

FbOthersIdle ==
    DetectorIdle /\ ScoreIdle /\ GenIdle /\ VerIdle /\ SearchIdle
    /\ CrawlIdle /\ BatchIdle /\ OrdIdle /\ TrackIdle

OrdOthersIdle ==
    DetectorIdle /\ ScoreIdle /\ GenIdle /\ VerIdle /\ SearchIdle
    /\ CrawlIdle /\ BatchIdle /\ FbIdle /\ TrackIdle

TrackOthersIdle ==
    DetectorIdle /\ ScoreIdle /\ GenIdle /\ VerIdle /\ SearchIdle
    /\ CrawlIdle /\ BatchIdle /\ FbIdle /\ OrdIdle

DetectorInit ==
    /\ emails \in SeqsUpTo(SamplePool, MaxSamples)
    /\ learned = Refused
    /\ dpc = "ready"
    /\ DetOthersIdle

Learn ==
    /\ dpc = "ready"
    /\ learned' = LearnFromDiscovered(emails)
    /\ dpc' = "done"
    /\ UNCHANGED <<emails, detOthers>>

DetectorNext == Learn

DetectorSpec == DetectorInit /\ [][DetectorNext]_vars

(* What the specification says about the detector, stated on the input *)

EligibleIdx == {i \in 1..Len(emails) :
                   /\ ~emails[i].is_role_based
                   /\ LowerDomain(emails[i].domain) \notin PERSONAL_DOMAINS}

EligibleCount == Cardinality(EligibleIdx)

HitsOf(name) ==
    Cardinality({i \in EligibleIdx :
                    PatternMatches(name, LowerStr(emails[i].local))})

PatternNames == {PATTERNS[k] : k \in 1..Len(PATTERNS)}

BestHits == CHOOSE h \in 0..Len(emails) :
                /\ \E p \in PatternNames : HitsOf(p) = h
                /\ \A p \in PatternNames : HitsOf(p) <= h

RECURSIVE SumHits(_)
SumHits(k) == IF k = 0 THEN 0 ELSE HitsOf(PATTERNS[k]) + SumHits(k - 1)

AllHits == SumHits(Len(PATTERNS))

MinOf(a, b) == IF a < b THEN a ELSE b

\* the three gates: >= 2 eligible samples, share >= 0.7, confidence >= 0.6
GatesPass ==
    /\ EligibleCount >= 2
    /\ AllHits > 0
    /\ 10 * BestHits >= 7 * AllHits
    /\ 10 * BestHits * MinOf(EligibleCount, 3) >= 6 * EligibleCount * 3

\* C1: learn_from_discovered returns a pattern exactly when there are at
\* least 2 eligible (non-role, non-personal) samples, the best pattern holds
\* at least 0.7 of all matches and the final confidence is at least 0.6;
\* every other input gives (None, 0.0).
C1_PatternOnlyWhenGatesPass ==
    dpc = "done" =>
        /\ (learned.pattern # NoPattern) <=> GatesPass
        /\ (learned.pattern = NoPattern) => learned.confidence = RZero

C1_Witness ==
    /\ dpc = "done"
    /\ learned.pattern # NoPattern
    /\ EligibleCount < Len(emails)

\* C8: a returned confidence equals (dominant matches / eligible samples)
\* * min(eligible samples / 3, 1); two eligible first.last samples give
\* first.last with confidence 2/3.
C8_ConfidenceFormula ==
    dpc = "done" =>
        /\ learned.pattern # NoPattern =>
              /\ learned.confidence.n * EligibleCount * 3
                    = BestHits * MinOf(EligibleCount, 3) * learned.confidence.d
              /\ HitsOf(learned.pattern) = BestHits
        /\ (EligibleCount = 2 /\ HitsOf("first.last") = 2) =>
              learned = [pattern |-> "first.last", confidence |-> Rat(2, 3)]

C8_Witness ==
    /\ dpc = "done"
    /\ EligibleCount = 2
    /\ HitsOf("first.last") = 2
    /\ learned = [pattern |-> "first.last", confidence |-> Rat(2, 3)]

----------------------------------------------------------------------------
(* Layered confidence, decay and response enforcement                      *)
(* (scoring/confidence_layered.py, scoring/confidence_with_decay.py,       *)
(*  verification/interpreter.py, discovery/enforcer.py)                    *)

\* an absent key / None
RNone == [n |-> 0, d |-> 0]

NoSmtp == [present |-> FALSE]

\* SMTPVerificationResult: technical booleans only
SmtpResults ==
    [present : {TRUE}, syntax_valid : BOOLEAN, mx_valid : BOOLEAN,
     smtp_accepts : BOOLEAN, catch_all : BOOLEAN]

\* SMTPResultInterpreter.interpret: copies the signals and adds can_verify
Interpret(sm) ==
    [syntax_valid |-> sm.syntax_valid,
     mx_valid |-> sm.mx_valid,
     smtp_accepts |-> sm.smtp_accepts,
     catch_all |-> sm.catch_all,
     can_verify |-> (sm.syntax_valid /\ sm.mx_valid)]

\* LAYER 1
ScoreEmailExistence(source, sm) ==
    IF source = "discovered"
    THEN [exists |-> TRUE, existence_confidence |-> ROne, is_factual |-> TRUE]
    ELSE IF source = "verification_inferred"
              /\ sm.present /\ Interpret(sm).smtp_accepts
    THEN [exists |-> TRUE, existence_confidence |-> ROne, is_factual |-> TRUE]
    ELSE [exists |-> FALSE, existence_confidence |-> RZero, is_factual |-> FALSE]

\* an association score that adds the full pattern confidence and is not capped
ScorePersonAssociationUncapped(pattern_used, pattern_confidence, sm) ==
    IF pattern_used = NoPattern \/ RLt(pattern_confidence, Rat(6, 10))
    THEN [person_match_confidence |-> RZero, verification_signal |-> RZero]
    ELSE LET verification_signal ==
                 IF ~sm.present THEN RZero
                 ELSE IF Interpret(sm).smtp_accepts /\ ~Interpret(sm).catch_all
                      THEN Rat(55, 100)
                 ELSE IF Interpret(sm).catch_all THEN Rat(10, 100)
                 ELSE RZero
         IN [person_match_confidence |-> RAdd(pattern_confidence, verification_signal),
             verification_signal |-> verification_signal]

\* LAYER 2
ScorePersonAssociation(pattern_used, pattern_confidence, sm) ==
    IF pattern_used = NoPattern \/ RLt(pattern_confidence, Rat(6, 10))
    THEN [person_match_confidence |-> RZero, verification_signal |-> RZero]
    ELSE LET base_confidence == RMul(pattern_confidence, Rat(4, 10))
             verification_signal ==
                 IF ~sm.present THEN RZero
                 ELSE IF Interpret(sm).smtp_accepts /\ ~Interpret(sm).catch_all
                      THEN Rat(55, 100)
                 ELSE IF Interpret(sm).catch_all THEN Rat(10, 100)
                 ELSE RZero
             total_confidence == RAdd(base_confidence, verification_signal)
         IN [person_match_confidence |-> RMin(total_confidence, Rat(95, 100)),
             verification_signal |-> verification_signal]

\* decay_rate_per_day by (source, verification_status)
DecayRatePerDay(source, verification_status) ==
    IF source = "discovered"
    THEN IF verification_status = "valid" THEN Rat(5, 100 * 90)
         ELSE Rat(10, 100 * 30)
    ELSE IF source = "inferred"
    THEN IF verification_status = "valid" THEN Rat(5, 100 * 180)
         ELSE Rat(20, 100 * 7)
    ELSE RZero

DecayBody(base_confidence, source, days_old, verification_status) ==
    LET total_decay ==
            RMin(RMul(DecayRatePerDay(source, verification_status),
                      Rat(days_old, 1)),
                 Rat(1, 2))
        decay_factor == RSub(ROne, total_decay)
    IN [decay_factor |-> decay_factor,
        final_confidence |-> RMul(base_confidence, decay_factor),
        days_old |-> days_old]

\* apply_decay without the guard for factual discoveries
ApplyDecayUnguarded(base_confidence, source, days_old, verification_status) ==
    DecayBody(base_confidence, source, days_old, verification_status)

\* ConfidenceEngineWithDecay.apply_decay; days_old = (now - reference_date).days
ApplyDecay(base_confidence, source, days_old, verification_status) ==
    IF source = "discovered" /\ base_confidence = ROne
    THEN [decay_factor |-> ROne, final_confidence |-> ROne, days_old |-> 0]
    ELSE DecayBody(base_confidence, source, days_old, verification_status)

\* ResponseEnforcer.enforce_discovered_response
EnforceDiscoveredResponse(r) ==
    IF r.source # "discovered" THEN r
    ELSE [r EXCEPT !.existence_confidence = ROne,
                   !.confidence = ROne,
                   !.is_factual = TRUE,
                   !.label = "Found on company website"]

\* ResponseEnforcer.enforce_inferred_response
EnforceInferredResponse(r) ==
    IF r.source # "inferred" THEN r
    ELSE LET got == IF r.confidence = RNone THEN RZero ELSE r.confidence
             confidence == RMin(got, Rat(95, 100))
         IN [r EXCEPT !.confidence = confidence,
                      !.is_factual = FALSE,
                      !.show_by_default = ~RLt(confidence, Rat(75, 100)),
                      !.label = IF RLt(confidence, Rat(75, 100))
                                THEN "Generated (unverified) - not shown by default"
                                ELSE "Generated + verified"]

Sources == {"discovered", "verification_inferred", "inferred"}

\* the record as built before scoring: discovery result, fallback candidate
\* (confidence 0.65) or generated candidate (confidence 0.0)
NewRecord(source) ==
    [source |-> source,
     existence_confidence |-> RNone,
     person_match_confidence |-> RNone,
     confidence |-> IF source = "inferred" THEN RZero
                    ELSE IF source = "verification_inferred" THEN Rat(65, 100)
                    ELSE RNone,
     is_factual |-> FALSE,
     show_by_default |-> FALSE,
     label |-> ""]

PatternConfidences == {Rat(k, 20) : k \in 0..20}

AgeDays == {0, 30, 90, 400}

Statuses == {"valid", "unverified"}

ScoreInit ==
    /\ rec \in {NewRecord(s) : s \in Sources}
    /\ smtp = NoSmtp
    /\ decays = 0
    /\ ScoreOthersIdle

\* a verification of the record's address returns
VerifyRecord ==
    /\ \E sm \in SmtpResults : smtp' = sm
    /\ UNCHANGED <<rec, decays, scoreOthers>>

ScoreExistence ==
    /\ LET e == ScoreEmailExistence(rec.source, smtp)
       IN rec' = [rec EXCEPT !.existence_confidence = e.existence_confidence,
                             !.is_factual = e.is_factual]
    /\ UNCHANGED <<smtp, decays, scoreOthers>>

ScoreAssociation ==
    /\ rec.source # "discovered"
    /\ \E p \in {NoPattern, "first.last"}, pc \in PatternConfidences :
          rec' = [rec EXCEPT !.person_match_confidence =
                     ScorePersonAssociation(p, pc, smtp).person_match_confidence]
    /\ UNCHANGED <<smtp, decays, scoreOthers>>

DecayExistence ==
    /\ decays < MaxDecays
    /\ rec.existence_confidence # RNone
    /\ \E days \in AgeDays, st \in Statuses :
          rec' = [rec EXCEPT !.existence_confidence =
                     ApplyDecay(rec.existence_confidence, rec.source, days, st)
                         .final_confidence]
    /\ decays' = decays + 1
    /\ UNCHANGED <<smtp, scoreOthers>>

DecayAssociation ==
    /\ decays < MaxDecays
    /\ rec.person_match_confidence # RNone
    /\ \E days \in AgeDays, st \in Statuses :
          rec' = [rec EXCEPT !.person_match_confidence =
                     ApplyDecay(rec.person_match_confidence, rec.source, days, st)
                         .final_confidence]
    /\ decays' = decays + 1
    /\ UNCHANGED <<smtp, scoreOthers>>

EnforceDiscovered ==
    /\ rec' = EnforceDiscoveredResponse(rec)
    /\ UNCHANGED <<smtp, decays, scoreOthers>>

EnforceInferred ==
    /\ rec' = EnforceInferredResponse(rec)
    /\ UNCHANGED <<smtp, decays, scoreOthers>>

ScoreNext ==
    \/ VerifyRecord
    \/ ScoreExistence
    \/ ScoreAssociation
    \/ DecayExistence
    \/ DecayAssociation
    \/ EnforceDiscovered
    \/ EnforceInferred

ScoreSpec == ScoreInit /\ [][ScoreNext]_vars

\* C2: a discovered record that has an existence score has existence 1.0,
\* after any sequence of scoring (with any SMTP result), decay (any age, any
\* status) and response enforcement.
C2_DiscoveredExistenceIsOne ==
    (rec.source = "discovered" /\ rec.existence_confidence # RNone)
        => rec.existence_confidence = ROne

C2_Witness ==
    /\ rec.source = "discovered"
    /\ rec.existence_confidence = ROne
    /\ decays = MaxDecays
    /\ smtp.present /\ ~smtp.smtp_accepts
    /\ rec.label # ""

\* C3: the association (person-match) confidence of a generated candidate is
\* strictly below 1.0 for every pattern confidence in [0,1] and SMTP result,
\* also after enforce_inferred_response.
C3_AssociationBelowOne ==
    (rec.source # "none" /\ rec.person_match_confidence # RNone)
        => RLt(rec.person_match_confidence, ROne)

C3_Witness ==
    /\ rec.source = "inferred"
    /\ rec.person_match_confidence = Rat(95, 100)
    /\ smtp.present /\ smtp.smtp_accepts /\ ~smtp.catch_all
    /\ rec.label # ""

----------------------------------------------------------------------------
(* EmailGenerator  (emails/generator.py) and                               *)
(* PatternDetector.validate_pattern_for_person                             *)

\* str.strip() on a string whose only whitespace character is " "
RECURSIVE StripLeft(_)
StripLeft(s) == IF s # <<>> /\ Head(s) = " " THEN StripLeft(Tail(s)) ELSE s

RECURSIVE StripRight(_)
StripRight(s) ==
    IF s # <<>> /\ s[Len(s)] = " " THEN StripRight(SubSeq(s, 1, Len(s) - 1)) ELSE s

Strip(s) == StripRight(StripLeft(s))

\* str.replace(c, "")
RECURSIVE RemoveChar(_, _)
RemoveChar(s, c) ==
    IF s = <<>> THEN <<>>
    ELSE IF Head(s) = c THEN RemoveChar(Tail(s), c)
         ELSE <<Head(s)>> \o RemoveChar(Tail(s), c)

\* str.replace(c + c, c): non-overlapping occurrences, left to right
RECURSIVE ReplacePair(_, _)
ReplacePair(s, c) ==
    IF Len(s) < 2 THEN s
    ELSE IF s[1] = c /\ s[2] = c
         THEN <<c>> \o ReplacePair(SubSeq(s, 3, Len(s)), c)
         ELSE <<s[1]>> \o ReplacePair(Tail(s), c)

\* a _normalize_name that keeps inner spaces
NormalizeNameKeepSpaces(name) ==
    IF name = <<>> THEN <<>> ELSE LowerStr(Strip(name))

\* EmailGenerator._normalize_name
NormalizeName(name) ==
    IF name = <<>> THEN <<>> ELSE RemoveChar(LowerStr(Strip(name)), " ")

NoEmail == <<>>

\* EmailGenerator._generate_from_pattern; NoEmail stands for None
GenerateFromPattern(first_name, last_name, domain, pattern) ==
    LET first == NormalizeName(first_name)
        last == NormalizeName(last_name)
        known == {"first.last", "first_last", "first-last", "firstlast",
                  "f.last", "flast", "f_last", "last.first", "lastfirst"}
        local == CASE pattern = "first.last" -> first \o <<".">> \o last
                   [] pattern = "first_last" -> first \o <<"_">> \o last
                   [] pattern = "first-last" -> first \o <<"-">> \o last
                   [] pattern = "firstlast" -> first \o last
                   [] pattern = "f.last" -> <<first[1]>> \o <<".">> \o last
                   [] pattern = "flast" -> <<first[1]>> \o last
                   [] pattern = "f_last" -> <<first[1]>> \o <<"_">> \o last
                   [] pattern = "last.first" -> last \o <<".">> \o first
                   [] pattern = "lastfirst" -> last \o first
        cleaned == ReplacePair(ReplacePair(ReplacePair(
                       Strip(LowerStr(local)), "-"), "_"), ".")
    IN IF first = <<>> \/ last = <<>> THEN NoEmail
       ELSE IF pattern \notin known THEN NoEmail
       ELSE cleaned \o <<"@">> \o domain

\* EmailGenerator._get_alternative_patterns
AlternativePatterns(primary_pattern) ==
    CASE primary_pattern = "first.last" -> <<"f.last", "flast", "first_last">>
      [] primary_pattern = "first_last" -> <<"first.last", "f.last", "firstlast">>
      [] primary_pattern = "f.last" -> <<"first.last", "flast">>
      [] primary_pattern = "flast" -> <<"f.last", "first.last">>
      [] primary_pattern = "firstlast" -> <<"first.last", "first_last">>
      [] primary_pattern = "first-last" -> <<"first.last", "first_last">>
      [] OTHER -> <<>>

\* PatternDetector.validate_pattern_for_person: every branch is
\* bool(first_name and last_name)
ValidatePatternForPerson(first_name, last_name, pattern) ==
    IF pattern = NoPattern THEN FALSE
    ELSE first_name # <<>> /\ last_name # <<>>

\* a RULE 1 that only asks for some pattern
NotConfirmedPatternOnly(pattern, pattern_confidence) == pattern = NoPattern

\* RULE 1: not pattern or pattern_confidence < 0.6
NotConfirmed(pattern, pattern_confidence) ==
    pattern = NoPattern \/ RLt(pattern_confidence, Rat(6, 10))

Candidate(email, pattern, pattern_confidence) ==
    [email |-> email,
     source |-> "inferred",
     pattern_used |-> pattern,
     pattern_confidence |-> pattern_confidence,
     verification_status |-> "unverified",
     confidence |-> RZero]

\* EmailGenerator.generate_candidates
GenerateCandidates(first_name, last_name, domain, pattern, pattern_confidence) ==
    IF NotConfirmed(pattern, pattern_confidence) THEN <<>>
    ELSE IF ~ValidatePatternForPerson(first_name, last_name, pattern) THEN <<>>
    ELSE LET generated_email ==
                 GenerateFromPattern(first_name, last_name, domain, pattern)
             primary == IF generated_email # NoEmail
                        THEN <<Candidate(generated_email, pattern, pattern_confidence)>>
                        ELSE <<>>
             alts == AlternativePatterns(pattern)
             alt_email(i) == GenerateFromPattern(first_name, last_name, domain, alts[i])
             keep == [i \in 1..Len(alts) |->
                         alt_email(i) # NoEmail /\ alt_email(i) # generated_email]
             altc == [i \in 1..Len(alts) |->
                         Candidate(alt_email(i), alts[i],
                                   RMul(pattern_confidence, Rat(7, 10)))]
         IN primary \o SelectSeqRec(altc, keep)

NamePool ==
    { <<>>,
      <<" ">>,
      <<"J","o","h","n">>,
      <<"D","o","e">>,
      <<"J","o"," ","D">>,
      <<"J",".">> }

DomainPool == { <<"a","c","m","e",".","c","o","m">>, <<"d",".","i","o">> }

PatternPool ==
    {NoPattern, "first.last", "first_last", "first-last", "firstlast",
     "f.last", "flast", "f_last", "last.first", "lastfirst", "nickname"}

GenInit ==
    /\ gin \in [first_name : NamePool, last_name : NamePool, domain : DomainPool,
                pattern : PatternPool, pattern_confidence : PatternConfidences]
    /\ candidates = <<>>
    /\ gpc = "ready"
    /\ GenOthersIdle

Generate ==
    /\ gpc = "ready"
    /\ candidates' = GenerateCandidates(gin.first_name, gin.last_name, gin.domain,
                                        gin.pattern, gin.pattern_confidence)
    /\ gpc' = "done"
    /\ UNCHANGED <<gin, genOthers>>

GenNext == Generate

GenSpec == GenInit /\ [][GenNext]_vars

\* C9: generate_candidates returns the empty list whenever no pattern is
\* given, the pattern confidence is below 0.6, or the first or last name is
\* missing; a candidate is only emitted for a confirmed pattern.
C9_NoCandidateWithoutConfirmedPattern ==
    gpc = "done" =>
        /\ ( \/ gin.pattern = NoPattern
             \/ 10 * gin.pattern_confidence.n < 6 * gin.pattern_confidence.d
             \/ gin.first_name = <<>>
             \/ gin.last_name = <<>> ) => candidates = <<>>
        /\ \A i \in 1..Len(candidates) :
              /\ candidates[i].pattern_used # NoPattern
              /\ candidates[i].source = "inferred"

C9_Witness ==
    /\ gpc = "done"
    /\ candidates = <<>>
    /\ gin.pattern = "first.last"
    /\ gin.pattern_confidence = Rat(11, 20)
    /\ gin.first_name = <<"J","o","h","n">>
    /\ gin.last_name = <<"D","o","e">>

(* The rendering the specification describes, stated on the inputs *)

TemplateSep(pattern) ==
    CASE pattern = "first.last" -> <<".">>
      [] pattern = "first_last" -> <<"_">>
      [] pattern = "first-last" -> <<"-">>
      [] pattern = "firstlast" -> <<>>

FullNameTemplates == {"first.last", "first_last", "first-last", "firstlast"}

NoSpaces(s) == SelectSeq(s, LAMBDA c : c # " ")

PrimaryRendered ==
    /\ gpc = "done"
    /\ candidates # <<>>
    /\ candidates[1].pattern_used = gin.pattern
    /\ gin.pattern \in FullNameTemplates

JohnDoeAtAcme ==
    /\ gin.first_name = <<"J","o","h","n">>
    /\ gin.last_name = <<"D","o","e">>
    /\ gin.domain = <<"a","c","m","e",".","c","o","m">>
    /\ gin.pattern = "first.last"
    /\ ~RLt(gin.pattern_confidence, Rat(6, 10))

\* C10 as stated: the primary candidate is lower(first) + separator +
\* lower(last) + "@" + domain.
C10_Original_LowerJoined ==
    PrimaryRendered =>
        candidates[1].email =
            LowerStr(gin.first_name) \o TemplateSep(gin.pattern)
                \o LowerStr(gin.last_name) \o <<"@">> \o gin.domain

\* C10 (amended): (John, Doe, acme.com) with first.last yields exactly
\* john.doe@acme.com; in general the primary candidate is the lower-cased
\* first and last name with spaces removed, joined by the template's
\* separator, with doubled separators collapsed by one pass each of
\* "--" -> "-", "__" -> "_", ".." -> ".", at the given domain.
C10_RenderedFromPattern ==
    /\ (gpc = "done" /\ JohnDoeAtAcme) =>
          /\ candidates # <<>>
          /\ candidates[1].email =
                <<"j","o","h","n",".","d","o","e","@","a","c","m","e",".","c","o","m">>
    /\ PrimaryRendered =>
          candidates[1].email =
              ReplacePair(ReplacePair(ReplacePair(
                  NoSpaces(LowerStr(gin.first_name)) \o TemplateSep(gin.pattern)
                      \o NoSpaces(LowerStr(gin.last_name)), "-"), "_"), ".")
                  \o <<"@">> \o gin.domain

C10_Witness ==
    /\ gpc = "done"
    /\ JohnDoeAtAcme
    /\ Len(candidates) > 1
    /\ candidates[1].email =
          <<"j","o","h","n",".","d","o","e","@","a","c","m","e",".","c","o","m">>

----------------------------------------------------------------------------
(* Verification (verification/smtp.py, verification/aggregator.py)         *)
(* validate_email, the DNS resolver and the SMTP server are the            *)
(* environment: syntax validity is a property of the address, the outcome  *)
(* of a lookup or of an SMTP session is chosen when the step runs.         *)

HasAt(addr) == \E i \in 1..Len(addr) : addr[i] = "@"

\* addresses handed to verify, with what validate_email says about them
AddressPool ==
    { [addr |-> <<"j","@","d">>, syntax_ok |-> TRUE],
      [addr |-> <<"j"," ","@","d">>, syntax_ok |-> FALSE],
      [addr |-> <<"j","@">>, syntax_ok |-> FALSE],
      [addr |-> <<"j","d">>, syntax_ok |-> FALSE] }

\* SMTPVerificationResult.__init__
NewSmtpResult(e) ==
    [email |-> e.addr, syntax_valid |-> FALSE, mx_valid |-> FALSE,
     smtp_accepts |-> FALSE, catch_all |-> FALSE, greylisted |-> FALSE,
     smtp_error |-> "None"]

\* what one run of SMTPVerifier._check_smtp leaves in the result:
\* connects = an SMTP connection was opened
SmtpSessionOutcomes ==
    { [name |-> "mx_lookup_raises",    connects |-> FALSE, accepts |-> FALSE, catch_all |-> FALSE, greylisted |-> FALSE, error |-> "lookup"],
      [name |-> "connect_fails",       connects |-> TRUE,  accepts |-> FALSE, catch_all |-> FALSE, greylisted |-> FALSE, error |-> "connect"],
      [name |-> "ehlo_failed",         connects |-> TRUE,  accepts |-> FALSE, catch_all |-> FALSE, greylisted |-> FALSE, error |-> "EHLO failed"],
      [name |-> "mail_failed",         connects |-> TRUE,  accepts |-> FALSE, catch_all |-> FALSE, greylisted |-> FALSE, error |-> "MAIL FROM failed"],
      [name |-> "rcpt_timeout",        connects |-> TRUE,  accepts |-> FALSE, catch_all |-> FALSE, greylisted |-> FALSE, error |-> "SMTP timeout"],
      [name |-> "rcpt_4xx_response",   connects |-> TRUE,  accepts |-> FALSE, catch_all |-> FALSE, greylisted |-> TRUE,  error |-> "None"],
      [name |-> "rcpt_refused_45x",    connects |-> TRUE,  accepts |-> FALSE, catch_all |-> FALSE, greylisted |-> TRUE,  error |-> "None"],
      [name |-> "rcpt_refused",        connects |-> TRUE,  accepts |-> FALSE, catch_all |-> FALSE, greylisted |-> FALSE, error |-> "None"],
      [name |-> "rcpt_auth",           connects |-> TRUE,  accepts |-> TRUE,  catch_all |-> TRUE,  greylisted |-> FALSE, error |-> "None"],
      [name |-> "accepted_probe_accepted", connects |-> TRUE, accepts |-> TRUE, catch_all |-> TRUE,  greylisted |-> FALSE, error |-> "None"],
      [name |-> "accepted_probe_refused",  connects |-> TRUE, accepts |-> TRUE, catch_all |-> FALSE, greylisted |-> FALSE, error |-> "None"] }

\* a verify that goes on to the MX lookup whatever the syntax check said
SvAfterSyntaxAlways(ok) == "mx"

\* SMTPVerifier.verify, Step 1: return early when the syntax check fails
SvAfterSyntax(ok) == IF ok THEN "mx" ELSE "done"

\* a verify that goes on to the SMTP session whatever the MX lookup said
SvAfterMxAlways(ok) == "smtp"

\* SMTPVerifier.verify, Step 2: return early when the MX lookup fails
SvAfterMx(ok) == IF ok THEN "smtp" ELSE "done"

\* result = SMTPVerificationResult(email): email.split("@")[1] raises
\* IndexError, outside the try block, when the address has no "@"
SvStart(c) ==
    /\ sv[c].pc = "idle"
    /\ av[c].pc = "idle"
    /\ \E e \in AddressPool :
          sv' = [sv EXCEPT ![c] =
                    IF HasAt(e.addr)
                    THEN [pc |-> "syntax", email |-> e,
                          result |-> NewSmtpResult(e), steps |-> <<>>]
                    ELSE [pc |-> "raised", email |-> e,
                          result |-> [email |-> <<>>], steps |-> <<>>]]
    /\ UNCHANGED <<av, self_result, wire, verOthers>>

SvSyntax(c) ==
    /\ sv[c].pc = "syntax"
    /\ LET ok == sv[c].email.syntax_ok
       IN sv' = [sv EXCEPT ![c].pc = SvAfterSyntax(ok),
                           ![c].steps = Append(@, "syntax"),
                           ![c].result.syntax_valid = ok]
    /\ UNCHANGED <<av, self_result, wire, verOthers>>

SvMx(c) ==
    /\ sv[c].pc = "mx"
    /\ \E ok \in BOOLEAN :
          sv' = [sv EXCEPT ![c].pc = SvAfterMx(ok),
                           ![c].steps = Append(@, "mx"),
                           ![c].result.mx_valid = ok]
    /\ wire' = wire \cup {<<"mx", sv[c].email.addr>>}
    /\ UNCHANGED <<av, self_result, verOthers>>

\* SMTPVerifier._check_smtp, run to its end
SvSmtp(c) ==
    /\ sv[c].pc = "smtp"
    /\ \E o \in SmtpSessionOutcomes :
          /\ sv' = [sv EXCEPT ![c].pc = "done",
                              ![c].steps = Append(@, "smtp"),
                              ![c].result.smtp_accepts = o.accepts,
                              ![c].result.catch_all = o.catch_all,
                              ![c].result.greylisted = o.greylisted,
                              ![c].result.smtp_error = o.error]
          /\ wire' = wire \cup {<<"mx", sv[c].email.addr>>}
                          \cup (IF o.connects THEN {<<"smtp", sv[c].email.addr>>}
                                ELSE {})
    /\ UNCHANGED <<av, self_result, verOthers>>

\* VerificationResult.__init__
NewVerificationResult(e) ==
    [email |-> e.addr, syntax_valid |-> FALSE, mx_exists |-> FALSE,
     smtp_accepted |-> FALSE, catch_all |-> FALSE,
     verification_status |-> "unverified", confidence |-> RZero]

\* what one run of VerificationAggregator._check_smtp leaves in self.result
AggSessionOutcomes ==
    { [name |-> "mx_lookup_raises", connects |-> FALSE, accepted |-> FALSE, catch_all |-> FALSE],
      [name |-> "connect_fails",    connects |-> TRUE,  accepted |-> FALSE, catch_all |-> FALSE],
      [name |-> "timeout",          connects |-> TRUE,  accepted |-> FALSE, catch_all |-> FALSE],
      [name |-> "rcpt_ok",          connects |-> TRUE,  accepted |-> TRUE,  catch_all |-> FALSE],
      [name |-> "rcpt_refused",     connects |-> TRUE,  accepted |-> FALSE, catch_all |-> FALSE],
      [name |-> "rcpt_auth",        connects |-> TRUE,  accepted |-> FALSE, catch_all |-> TRUE] }

\* VerificationAggregator._determine_status
DetermineStatus(r) ==
    IF r.smtp_accepted
    THEN [r EXCEPT !.verification_status = "valid", !.confidence = Rat(95, 100)]
    ELSE IF r.catch_all
    THEN [r EXCEPT !.verification_status = "catch_all", !.confidence = Rat(5, 10)]
    ELSE [r EXCEPT !.verification_status = "invalid", !.confidence = Rat(1, 10)]

\* every caller awaits one verify at a time on its aggregator
AggFree(c) == \A d \in Calls \ {c} : av[d].pc \in {"idle", "done", "raised"}

\* self.result = VerificationResult(email): raises IndexError without "@"
AvStart(c) ==
    /\ av[c].pc = "idle"
    /\ sv[c].pc = "idle"
    /\ AggFree(c)
    /\ \E e \in AddressPool :
          IF HasAt(e.addr)
          THEN /\ self_result' = NewVerificationResult(e)
               /\ av' = [av EXCEPT ![c] =
                            [pc |-> "syntax", email |-> e, steps |-> <<>>,
                             ret |-> [email |-> <<>>]]]
          ELSE /\ self_result' = self_result
               /\ av' = [av EXCEPT ![c] =
                            [pc |-> "raised", email |-> e, steps |-> <<>>,
                             ret |-> [email |-> <<>>]]]
    /\ UNCHANGED <<sv, wire, verOthers>>

\* Step 1: _verify_syntax reads self.result.email
AvSyntax(c) ==
    /\ av[c].pc = "syntax"
    /\ LET ok == av[c].email.syntax_ok
           r == IF ok THEN [self_result EXCEPT !.syntax_valid = TRUE]
                ELSE [self_result EXCEPT !.verification_status = "invalid"]
       IN /\ self_result' = r
          /\ av' = [av EXCEPT ![c].pc = IF ok THEN "mx" ELSE "done",
                              ![c].steps = Append(@, "syntax"),
                              ![c].ret = IF ok THEN @ ELSE r]
    /\ UNCHANGED <<sv, wire, verOthers>>

\* Step 2: _check_mx resolves self.result.domain
AvMx(c) ==
    /\ av[c].pc = "mx"
    /\ \E ok \in BOOLEAN :
          LET r == IF ok THEN [self_result EXCEPT !.mx_exists = TRUE]
                   ELSE [self_result EXCEPT !.verification_status = "invalid"]
          IN /\ self_result' = r
             /\ av' = [av EXCEPT ![c].pc = IF ok THEN "smtp" ELSE "done",
                                 ![c].steps = Append(@, "mx"),
                                 ![c].ret = IF ok THEN @ ELSE r]
    /\ wire' = wire \cup {<<"mx", self_result.email>>}
    /\ UNCHANGED <<sv, verOthers>>

\* Steps 3 and 4: _check_smtp, then _determine_status, then return self.result
AvSmtp(c) ==
    /\ av[c].pc = "smtp"
    /\ \E o \in AggSessionOutcomes :
          LET r == DetermineStatus(
                       [self_result EXCEPT !.smtp_accepted = o.accepted,
                                           !.catch_all = o.catch_all])
          IN /\ self_result' = r
             /\ av' = [av EXCEPT ![c].pc = "done",
                                 ![c].steps = Append(@, "smtp"),
                                 ![c].ret = r]
             /\ wire' = wire \cup {<<"mx", self_result.email>>}
                             \cup (IF o.connects
                                   THEN {<<"smtp", self_result.email>>} ELSE {})
    /\ UNCHANGED <<sv, verOthers>>

VerInit == VerIdle /\ VerOthersIdle

VerNext ==
    \E c \in Calls :
        \/ SvStart(c)
        \/ SvSyntax(c)
        \/ SvMx(c)
        \/ SvSmtp(c)
        \/ AvStart(c)
        \/ AvSyntax(c)
        \/ AvMx(c)
        \/ AvSmtp(c)

VerSpec == VerInit /\ [][VerNext]_vars

IsPrefixOf(s, t) == Len(s) <= Len(t) /\ \A i \in 1..Len(s) : s[i] = t[i]

Started(f) == f.pc \notin {"idle", "raised"}

\* the steps of one verify call respect syntax -> MX -> SMTP with short-circuit
OrderedShortCircuit(f, mxPassed) ==
    /\ IsPrefixOf(f.steps, <<"syntax", "mx", "smtp">>)
    /\ (f.pc = "done" /\ ~f.email.syntax_ok) => f.steps = <<"syntax">>
    /\ (f.pc = "done" /\ f.email.syntax_ok /\ ~mxPassed) =>
           f.steps = <<"syntax", "mx">>

\* C4: verification runs in the order syntax, MX, SMTP with short-circuit:
\* an address that fails the syntax check never causes an MX lookup or an
\* SMTP connection, and a failed MX lookup is never followed by an SMTP
\* connection (SMTPVerifier.verify and VerificationAggregator.verify).
C4_SyntaxMxSmtpShortCircuit ==
    /\ \A e \in AddressPool :
          ~e.syntax_ok => /\ <<"mx", e.addr>> \notin wire
                          /\ <<"smtp", e.addr>> \notin wire
    /\ \A c \in Calls :
          /\ Started(sv[c]) => OrderedShortCircuit(sv[c], sv[c].result.mx_valid)
          /\ Started(av[c]) =>
                OrderedShortCircuit(av[c],
                    av[c].ret.email # <<>> /\ av[c].ret.mx_exists)

C4_Witness ==
    \E b, c, d \in Calls :
        /\ sv[b].pc = "done" /\ ~sv[b].email.syntax_ok
        /\ av[c].pc = "done" /\ ~av[c].email.syntax_ok
        /\ av[d].pc = "done" /\ av[d].steps = <<"syntax", "mx">>
        /\ wire # {}

(***************************************************************************)
(* Public discovery and the domain search pipeline                         *)
(*   discovery/service.py  PublicDiscoveryEngine                           *)
(*   api/routes/search.py  search_domain                                   *)
(*   discovery/enforcer.py DiscoveryRuleEnforcer                           *)
(* Addresses are tuples of characters.  A page is described by where an    *)
(* address occurs on it; every page of one run is a distinct URL.          *)
(***************************************************************************)
Count(s, c) == Cardinality({i \in 1..Len(s) : s[i] = c})

StartsWith(s, t) == Len(t) <= Len(s) /\ SubSeq(s, 1, Len(t)) = t

EndsWith(s, t) == Len(t) <= Len(s) /\ SubSeq(s, Len(s) - Len(t) + 1, Len(s)) = t

Contains(s, t) ==
    \E i \in 1..(Len(s) + 1) : i + Len(t) - 1 <= Len(s) /\ SubSeq(s, i, i + Len(t) - 1) = t

\* the parts of  s.split(c)  when c occurs exactly once
BeforeChar(s, c) == SubSeq(s, 1, (CHOOSE i \in 1..Len(s) : s[i] = c) - 1)

AfterChar(s, c) == SubSeq(s, (CHOOSE i \in 1..Len(s) : s[i] = c) + 1, Len(s))

\* s.split(c)[-1]
LastSegment(s, c) ==
    IF Count(s, c) = 0 THEN s
    ELSE SubSeq(s, (CHOOSE i \in 1..Len(s) :
                        s[i] = c /\ \A j \in (i + 1)..Len(s) : s[j] # c) + 1, Len(s))

IsAlpha(s) == s # <<>> /\ \A i \in 1..Len(s) : s[i] \in LowerChars \cup UpperChars

GENERIC_DOMAINS ==
    { <<"g", "m", "a", "i", "l", ".", "c", "o", "m">>,
      <<"y", "a", "h", "o", "o", ".", "c", "o", "m">>,
      <<"h", "o", "t", "m", "a", "i", "l", ".", "c", "o", "m">>,
      <<"o", "u", "t", "l", "o", "o", "k", ".", "c", "o", "m">>,
      <<"a", "o", "l", ".", "c", "o", "m">>,
      <<"p", "r", "o", "t", "o", "n", "m", "a", "i", "l", ".", "c", "o", "m">>,
      <<"i", "c", "l", "o", "u", "d", ".", "c", "o", "m">>,
      <<"m", "a", "i", "l", ".", "c", "o", "m">> }

AssetExtensions ==
    { <<".", "p", "n", "g">>,
      <<".", "j", "p", "g">>,
      <<".", "j", "p", "e", "g">>,
      <<".", "g", "i", "f">>,
      <<".", "s", "v", "g">>,
      <<".", "w", "e", "b", "p">>,
      <<".", "c", "s", "s">>,
      <<".", "j", "s">>,
      <<".", "i", "c", "o">> }

AbusePrefixes ==
    { <<"n", "o", "r", "e", "p", "l", "y">>,
      <<"n", "o", "-", "r", "e", "p", "l", "y">>,
      <<"d", "o", "n", "o", "t", "r", "e", "p", "l", "y">> }

fake_domains ==
    { <<"e", "x", "a", "m", "p", "l", "e", ".", "c", "o", "m">>,
      <<"t", "e", "s", "t", ".", "c", "o", "m">>,
      <<"d", "o", "m", "a", "i", "n", ".", "c", "o", "m">>,
      <<"y", "o", "u", "r", "c", "o", "m", "p", "a", "n", "y", ".", "c", "o", "m">>,
      <<"y", "o", "u", "r", "d", "o", "m", "a", "i", "n", ".", "c", "o", "m">>,
      <<"e", "m", "a", "i", "l", ".", "c", "o", "m">>,
      <<"c", "o", "m", "p", "a", "n", "y", ".", "c", "o", "m">>,
      <<"b", "e", "i", "s", "p", "i", "e", "l", ".", "d", "e">>,
      <<"e", "x", "a", "m", "p", "l", "e", ".", "o", "r", "g">>,
      <<"a", "c", "m", "e", ".", "c", "o", "m">>,
      <<"p", "l", "a", "c", "e", "h", "o", "l", "d", "e", "r", ".", "c", "o", "m">>,
      <<"m", "a", "i", "l", "i", "n", "a", "t", "o", "r", ".", "c", "o", "m">>,
      <<"g", "u", "e", "r", "r", "i", "l", "l", "a", "m", "a", "i", "l", ".", "c", "o", "m">>,
      <<"t", "e", "m", "p", "-", "m", "a", "i", "l", ".", "o", "r", "g">>,
      <<"t", "h", "r", "o", "w", "a", "w", "a", "y", ".", "e", "m", "a", "i", "l">> }

FilenameMarkers ==
    { <<"@", "2", "x">>,
      <<"@", "3", "x">>,
      <<"_", "i", "c", "o", "n">>,
      <<"_", "i", "m", "a", "g", "e">> }

invalid_tlds ==
    { <<"i", "f">>,
      <<"t", "h", "e", "n">>,
      <<"e", "l", "s", "e">>,
      <<"f", "o", "r">>,
      <<"w", "h", "i", "l", "e">>,
      <<"v", "a", "r">>,
      <<"l", "e", "t">>,
      <<"c", "o", "n", "s", "t">>,
      <<"f", "u", "n", "c", "t", "i", "o", "n">> }

common_tlds ==
    { <<"c", "o", "m">>,
      <<"o", "r", "g">>,
      <<"n", "e", "t">>,
      <<"e", "d", "u">>,
      <<"g", "o", "v">>,
      <<"i", "o">>,
      <<"c", "o">>,
      <<"m", "e">>,
      <<"i", "n", "f", "o">>,
      <<"b", "i", "z">>,
      <<"u", "s">>,
      <<"u", "k">>,
      <<"d", "e">>,
      <<"f", "r">>,
      <<"i", "n">>,
      <<"a", "u">>,
      <<"c", "a">>,
      <<"j", "p">>,
      <<"c", "n">>,
      <<"r", "u">>,
      <<"b", "r">>,
      <<"i", "t">>,
      <<"e", "s">>,
      <<"n", "l">>,
      <<"s", "e">>,
      <<"c", "h">>,
      <<"p", "l">>,
      <<"b", "e">>,
      <<"a", "t">>,
      <<"i", "e">>,
      <<"n", "z">>,
      <<"m", "x">>,
      <<"a", "p", "p">>,
      <<"d", "e", "v">>,
      <<"t", "e", "c", "h">>,
      <<"a", "i">>,
      <<"c", "l", "o", "u", "d">>,
      <<"o", "n", "l", "i", "n", "e">>,
      <<"s", "h", "o", "p">>,
      <<"s", "t", "o", "r", "e">>,
      <<"b", "l", "o", "g">>,
      <<"x", "y", "z">>,
      <<"s", "i", "t", "e">>,
      <<"s", "o">>,
      <<"t", "v">>,
      <<"f", "m">>,
      <<"g", "g">>,
      <<"c", "c">>,
      <<"l", "y">> }

common_email_domains ==
    { <<"g", "m", "a", "i", "l", ".", "c", "o", "m">>,
      <<"y", "a", "h", "o", "o", ".", "c", "o", "m">>,
      <<"h", "o", "t", "m", "a", "i", "l", ".", "c", "o", "m">>,
      <<"o", "u", "t", "l", "o", "o", "k", ".", "c", "o", "m">> }

MinDomainLen == 3

MaxDomainLen == 255

MaxLocalLen == 64

MinTldLen == 2

MaxTldLen == 10

LongTldLen == 4

\* _is_valid_email, after the '@' count is known to be one
ValidParts(local, domain) ==
    LET tld == LastSegment(domain, ".") IN
    /\ ~ \E x \in AssetExtensions : EndsWith(domain, x)
    /\ Count(domain, ".") > 0
    /\ ~ (Len(domain) < MinDomainLen \/ Len(domain) > MaxDomainLen)
    /\ ~ (Len(local) < 1 \/ Len(local) > MaxLocalLen)
    /\ ~ \E p \in AbusePrefixes : StartsWith(local, p)
    /\ domain \notin fake_domains
    /\ ~ \E x \in FilenameMarkers : Contains(domain, x)
    /\ ~ (Len(tld) < MinTldLen \/ Len(tld) > MaxTldLen)
    /\ IsAlpha(tld)
    /\ tld \notin invalid_tlds
    /\ ~ (Len(tld) > LongTldLen /\ tld \notin common_tlds)
    /\ \A cd \in common_email_domains :
          ~ (Contains(domain, cd) /\ domain # cd /\ ~ EndsWith(domain, <<".">> \o cd))

IsValidEmail(email) ==
    IF email = <<>> \/ Count(email, "@") = 0 THEN FALSE
    ELSE LET e == Strip(LowerStr(email)) IN
         IF Count(e, "@") # 1 THEN FALSE
         ELSE ValidParts(BeforeChar(e, "@"), AfterChar(e, "@"))

\* the domain the engine was built for
TargetDomain == <<"d", ".", "i", "o">>

\* email.split("@")[1]
SecondPart(email) ==
    LET rest == AfterChar(email, "@") IN
    IF Count(rest, "@") = 0 THEN rest ELSE BeforeChar(rest, "@")

DetermineEmailType(email) ==
    LET domain == LowerStr(SecondPart(email)) IN
    IF domain \in GENERIC_DOMAINS THEN "personal"
    ELSE IF domain = TargetDomain \/ EndsWith(domain, <<".">> \o TargetDomain) THEN "work"
    ELSE "personal"

NewDiscoveredEmail(email, source, email_type) ==
    [email |-> LowerStr(email), domain |-> LowerStr(SecondPart(email)),
     source |-> source, occurrences |-> 1, email_type |-> email_type]

KeyIndex(d, key) == {i \in 1..Len(d) : d[i].email = key}

\* every call for a known key counts one more occurrence
AddEmail(d, email, source, email_type) ==
    LET email_lower == LowerStr(email) IN
    IF KeyIndex(d, email_lower) # {}
    THEN [i \in 1..Len(d) |->
             IF d[i].email = email_lower
             THEN [d[i] EXCEPT !.occurrences = @ + 1] ELSE d[i]]
    ELSE Append(d, NewDiscoveredEmail(email, source, email_type))

Placements == {"mailto", "footer", "body", "jsonld", "obfuscated"}

\* where an address stands on one page: in one place, or in a mailto link
\* whose text shows the address
PagePlacements == {{p} : p \in Placements} \cup {{"mailto", "body"}}

Times(x, n) == [i \in 1..n |-> x]

Bit(b) == IF b THEN 1 ELSE 0

\* The sources under which _extract_from_html hands one address to
\* _add_email, in order.  The footer is part of the page text; the
\* schema.org pass reads script elements the function has already removed,
\* so a JSON-LD address is met by the raw HTML pass alone.
ExtractionPasses(where, contact_url) ==
    LET in_text == Bit("footer" \in where) + Bit("body" \in where)
        in_html == in_text + Bit("mailto" \in where) + Bit("jsonld" \in where)
    IN Times("mailto_link", Bit("mailto" \in where))
       \o Times("footer_text", Bit("footer" \in where))
       \o Times("contact_page", IF contact_url THEN in_text ELSE 0)
       \o Times("page_text", in_text)
       \o Times("raw_html", in_html)
       \o Times("obfuscated", Bit("obfuscated" \in where))

RECURSIVE AddAll(_, _, _)
AddAll(d, email, sources) ==
    IF sources = <<>> THEN d
    ELSE AddAll(AddEmail(d, email, Head(sources), DetermineEmailType(email)),
                email, Tail(sources))

ExtractFromHtml(d, email, where, contact_url) ==
    IF IsValidEmail(email) THEN AddAll(d, email, ExtractionPasses(where, contact_url))
    ELSE d

FilterFakeSubstrings ==
    { <<"e", "x", "a", "m", "p", "l", "e", ".", "c", "o", "m">>,
      <<"t", "e", "s", "t", ".", "c", "o", "m">>,
      <<"d", "o", "m", "a", "i", "n", ".", "c", "o", "m">>,
      <<"y", "o", "u", "r", "c", "o", "m", "p", "a", "n", "y", ".", "c", "o", "m">>,
      <<"y", "o", "u", "r", "d", "o", "m", "a", "i", "n", ".", "c", "o", "m">>,
      <<"e", "m", "a", "i", "l", ".", "c", "o", "m">>,
      <<"c", "o", "m", "p", "a", "n", "y", ".", "c", "o", "m">> }

FilterAssetExtensions ==
    { <<".", "p", "n", "g">>,
      <<".", "j", "p", "g">>,
      <<".", "g", "i", "f">>,
      <<".", "s", "v", "g">>,
      <<".", "w", "e", "b", "p">>,
      <<".", "c", "s", "s">>,
      <<".", "j", "s">> }

FilterDiscoveredEmails(d) ==
    SelectSeqRec(d, [i \in 1..Len(d) |->
        /\ ~ \E x \in FilterFakeSubstrings : Contains(d[i].email, x)
        /\ ~ \E x \in FilterAssetExtensions : EndsWith(d[i].email, x)])

top_prefixes ==
    << <<"i", "n", "f", "o">>,
       <<"c", "o", "n", "t", "a", "c", "t">>,
       <<"h", "e", "l", "l", "o">>,
       <<"s", "u", "p", "p", "o", "r", "t">>,
       <<"s", "a", "l", "e", "s">>,
       <<"t", "e", "a", "m">> >>

GenerateCommonEmails ==
    [i \in 1..Len(top_prefixes) |->
        [email |-> top_prefixes[i] \o <<"@">> \o TargetDomain,
         domain |-> TargetDomain, source |-> "generated",
         occurrences |-> 1, email_type |-> "work"]]

\* sorted(..., key=occurrences, reverse=True): stable, larger counts first
RECURSIVE InsertByOccurrences(_, _)
InsertByOccurrences(sorted, e) ==
    IF sorted = <<>> THEN <<e>>
    ELSE IF Head(sorted).occurrences < e.occurrences THEN <<e>> \o sorted
    ELSE <<Head(sorted)>> \o InsertByOccurrences(Tail(sorted), e)

RECURSIVE SortByOccurrences(_)
SortByOccurrences(s) ==
    IF s = <<>> THEN <<>>
    ELSE InsertByOccurrences(SortByOccurrences(SubSeq(s, 1, Len(s) - 1)), s[Len(s)])

\* discover(): the work_emails and personal_emails it returns
DiscoverResult(d) ==
    LET kept     == FilterDiscoveredEmails(d)
        work     == SelectSeqRec(kept, [i \in 1..Len(kept) |-> kept[i].email_type = "work"])
        personal == SelectSeqRec(kept, [i \in 1..Len(kept) |-> kept[i].email_type # "work"])
    IN [work_emails     |-> SortByOccurrences(IF work = <<>> THEN GenerateCommonEmails
                                              ELSE work),
        personal_emails |-> SortByOccurrences(personal)]

ROLE_BASED_PATTERNS ==
    { <<"i", "n", "f", "o", "@">>,
      <<"c", "o", "n", "t", "a", "c", "t", "@">>,
      <<"s", "u", "p", "p", "o", "r", "t", "@">>,
      <<"h", "e", "l", "l", "o", "@">>,
      <<"n", "o", "r", "e", "p", "l", "y", "@">>,
      <<"n", "o", "-", "r", "e", "p", "l", "y", "@">>,
      <<"s", "a", "l", "e", "s", "@">>,
      <<"a", "d", "m", "i", "n", "@">>,
      <<"t", "e", "a", "m", "@">> }

\* EmailExtractor._is_valid_work_email: the local part starts with a role
\* pattern stripped of its '@'
IsRoleBased(local) ==
    \E pattern \in ROLE_BASED_PATTERNS :
        StartsWith(LowerStr(local), RemoveChar(pattern, "@"))

EnforceDiscoveredAreFacts(ds) ==
    [i \in 1..Len(ds) |->
        [is_factual |-> TRUE, existence_confidence |-> ROne,
         no_decay |-> TRUE, skip_pattern_weighting |-> TRUE] @@ ds[i]]

\* enforce_gmail_excluded_from_patterns: the dicts kept for pattern learning
WorkForPattern(ds) ==
    SelectSeqRec(ds, [i \in 1..Len(ds) |-> ds[i].email_type # "personal"])

\* learn_from_discovered applied to a list whose items are dicts or plain
\* strings: the comprehension calls  e.get  on each item, which a str lacks
LearnFromDiscoveredOn(items) ==
    IF items = <<>> THEN [raised |-> FALSE, result |-> Refused]
    ELSE IF \E i \in 1..Len(items) : items[i].type = "str"
    THEN [raised |-> TRUE, result |-> Refused]
    ELSE [raised |-> FALSE,
          result |-> LearnFromDiscovered([i \in 1..Len(items) |-> items[i].value])]

ServerError == [status |-> 500, detail |-> "Search failed"]

\* search_domain from stage 2 on
SearchOutcome(ds) ==
    LET work_for_pattern == WorkForPattern(ds)
        work_email_addresses ==
            [i \in 1..Len(work_for_pattern) |->
                [type |-> "str", value |-> work_for_pattern[i].email]]
        learnt == IF work_for_pattern # <<>>
                  THEN LearnFromDiscoveredOn(work_email_addresses)
                  ELSE [raised |-> FALSE, result |-> Refused]
    IN IF learnt.raised THEN ServerError
       \* stage 5 calls score_email_existence with a keyword it does not take
       ELSE IF ds # <<>> THEN ServerError
       ELSE [status |-> 200, pattern |-> learnt.result.pattern,
             pattern_confidence |-> learnt.result.confidence, emails |-> <<>>]

SearchInit ==
    /\ discovered_emails = <<>>
    /\ pages_crawled = 0
    /\ seen_on = [k \in KeyPool |-> 0]
    /\ spc = "crawl"
    /\ all_discovered = <<>>
    /\ response = [status |-> "none"]
    /\ SearchOthersIdle

\* _crawl_page on a page that answers 200 and carries one address
CrawlPage ==
    /\ spc = "crawl"
    /\ pages_crawled < MaxPages
    /\ \E email \in PageAddressPool, where \in PagePlacements,
          contact_url \in BOOLEAN :
          /\ discovered_emails' =
                 ExtractFromHtml(discovered_emails, email, where, contact_url)
          /\ seen_on' = [seen_on EXCEPT ![LowerStr(email)] = @ + 1]
    /\ pages_crawled' = pages_crawled + 1
    /\ UNCHANGED <<spc, all_discovered, response, searchOthers>>

\* _crawl_page on a page that fails, or that carries no address
CrawlNothing ==
    /\ spc = "crawl"
    /\ pages_crawled < MaxPages
    /\ pages_crawled' = pages_crawled + 1
    /\ UNCHANGED <<discovered_emails, seen_on, spc, all_discovered, response,
                   searchOthers>>

\* the rest of discover(), and search_domain building all_discovered
Discover ==
    /\ spc = "crawl"
    /\ discovered_emails' = FilterDiscoveredEmails(discovered_emails)
    /\ LET discovery_result == DiscoverResult(discovered_emails)
       IN all_discovered' = discovery_result.work_emails
                            \o discovery_result.personal_emails
    /\ spc' = "discovered"
    /\ UNCHANGED <<pages_crawled, seen_on, response, searchOthers>>

EnforceFacts ==
    /\ spc = "discovered"
    /\ all_discovered' = EnforceDiscoveredAreFacts(all_discovered)
    /\ spc' = "enforced"
    /\ UNCHANGED <<discovered_emails, pages_crawled, seen_on, response,
                   searchOthers>>

Respond ==
    /\ spc = "enforced"
    /\ response' = SearchOutcome(all_discovered)
    /\ spc' = "done"
    /\ UNCHANGED <<discovered_emails, pages_crawled, seen_on, all_discovered,
                   searchOthers>>

SearchNext == CrawlPage \/ CrawlNothing \/ Discover \/ EnforceFacts \/ Respond

SearchSpec == SearchInit /\ [][SearchNext]_vars

-----------------------------------------------------------------------------
LocalPart(email) == BeforeChar(email, "@")

WorkOnlyRoleBased ==
    /\ WorkForPattern(all_discovered) # <<>>
    /\ \A i \in 1..Len(all_discovered) :
          all_discovered[i].email_type # "personal"
              => IsRoleBased(LocalPart(all_discovered[i].email))

\* C5: role-based addresses never enter pattern learning in the domain
\* search pipeline, so a search whose only work addresses are role-based
\* ends with the answer (None, 0.0).  The handler does not get that far: it
\* hands the detector plain address strings and ends with a server error.
C5_RoleOnlyYieldsNoPattern ==
    (spc = "done" /\ WorkOnlyRoleBased)
        => /\ response.status = 200
           /\ response.pattern = NoPattern
           /\ response.pattern_confidence = RZero

IsGenerated(d) == d.source = "generated"

MarkedAsFact(d) ==
    \/ "is_factual" \in DOMAIN d /\ d.is_factual
    \/ "existence_confidence" \in DOMAIN d /\ d.existence_confidence = ROne
    \/ d.source = "discovered"

C7_OccurrencesCountPages ==
    /\ \A i, j \in 1..Len(discovered_emails) :
          discovered_emails[i].email = discovered_emails[j].email => i = j
    /\ \A i \in 1..Len(discovered_emails) :
          /\ discovered_emails[i].email = LowerStr(discovered_emails[i].email)
          /\ discovered_emails[i].occurrences = seen_on[discovered_emails[i].email]

(***************************************************************************)
(* Web crawler: discovery/crawler.py  WebCrawler.fetch_page                *)
(* One frame per call.  All calls are for URLs of one domain, so they      *)
(* share that domain's semaphore; the rate limiter only delays a call.     *)
(* An optional value is a sequence of length 0 (None) or 1.                *)
(***************************************************************************)
None == <<>>

Some(x) == <<x>>

CRAWLER_MAX_RETRIES == 3

DomainSemaphoreLimit == 3

TimeoutSleep == 1

RetryStatuses == {429, 503}

RECURSIVE Pow2(_)
Pow2(n) == IF n = 0 THEN 1 ELSE 2 * Pow2(n - 1)

\* what the request for robots.txt can come to
RobotsOutcomes == {"200_allow", "200_disallow", "404", "500", "exception"}

\* _check_robots_txt: can_fetch for a 200 answer, allowed in every other case
CheckRobotsTxt(outcome) == outcome # "200_disallow"

JsOutcomes == {"rendered", "empty", "failed"}

Bodies == {"", "<html>"}

\* what one session.get of _fetch_static can come to
StaticOutcomes ==
    [kind : {"response"}, status : {200}, body : Bodies]
    \cup [kind : {"response"}, status : {404, 429, 503}, body : {""}]
    \cup [kind : {"timeout", "client_error", "decode_error"}, status : {0}, body : {""}]

NewFetch(js) ==
    [pc |-> "acquire", js |-> js, robots_allowed |-> "unchecked",
     attempt |-> 0, timeouts |-> 0, wait_time |-> 0, page_requests |-> 0,
     last |-> "none", ret |-> [content |-> None, reason |-> "pending"],
     raised |-> FALSE]

Return(f, content, reason) ==
    [f EXCEPT !.pc = "done", !.ret = [content |-> content, reason |-> reason]]

\* the handler of fetch_page catches only timeouts
CaughtByFetchPageTimeoutOnly(kind) == kind = "timeout"

\* except Exception at the end of fetch_page
CaughtByFetchPage(kind) == TRUE

Escaped(f, kind) ==
    IF CaughtByFetchPage(kind) THEN Return(f, None, "error")
    ELSE [f EXCEPT !.pc = "done", !.raised = TRUE]

\* the page is requested whatever robots.txt said
AfterRobotsUnchecked(f, allowed) ==
    [f EXCEPT !.robots_allowed = IF allowed THEN "yes" ELSE "no",
              !.pc = IF f.js THEN "js" ELSE "static"]

AfterRobots(f, allowed) ==
    IF ~allowed
    THEN Return([f EXCEPT !.robots_allowed = "no"], None, "robots")
    ELSE [f EXCEPT !.robots_allowed = "yes",
                   !.pc = IF f.js THEN "js" ELSE "static"]

AfterJs(f, outcome) ==
    LET g == [f EXCEPT !.page_requests = @ + 1] IN
    IF outcome = "rendered" THEN Return(g, Some("<html>"), "None")
    ELSE [g EXCEPT !.pc = "static"]

\* one pass of the loop of _fetch_static, and the return after the loop
\* when that pass was the last
StaticAttempt(f, o) ==
    LET g == [f EXCEPT !.page_requests = @ + 1,
                       !.last = IF o.kind = "response" THEN "status" ELSE o.kind]
        last_pass == f.attempt + 1 = CRAWLER_MAX_RETRIES
    IN IF o.kind = "response" THEN
           IF o.status = 200 THEN Return(g, Some(o.body), "None")
           ELSE IF o.status \in RetryStatuses THEN
               LET h == [g EXCEPT !.wait_time = Pow2(f.attempt),
                                  !.attempt = @ + 1, !.last = "retry_status"]
               IN IF last_pass THEN Return(h, None, "error") ELSE h
           ELSE Return(g, None, "error")
       ELSE IF o.kind = "timeout" THEN
           IF f.attempt = CRAWLER_MAX_RETRIES - 1
           THEN Return([g EXCEPT !.timeouts = @ + 1], None, "timeout")
           ELSE [g EXCEPT !.timeouts = @ + 1, !.wait_time = TimeoutSleep,
                          !.attempt = @ + 1]
       ELSE Escaped(g, o.kind)

Released(f) == IF f.pc = "done" THEN sem_holders - 1 ELSE sem_holders

CrawlInit ==
    /\ fetch = [c \in Fetches |-> IdleFrame]
    /\ sem_holders = 0
    /\ CrawlOthersIdle

FetchStart(c) ==
    /\ fetch[c].pc = "idle"
    /\ \E js \in BOOLEAN : fetch' = [fetch EXCEPT ![c] = NewFetch(js)]
    /\ UNCHANGED <<sem_holders, crawlOthers>>

\* async with semaphore, then limiter.wait()
FetchEnter(c) ==
    /\ fetch[c].pc = "acquire"
    /\ sem_holders < DomainSemaphoreLimit
    /\ sem_holders' = sem_holders + 1
    /\ fetch' = [fetch EXCEPT ![c].pc = "robots"]
    /\ UNCHANGED crawlOthers

FetchRobots(c) ==
    /\ fetch[c].pc = "robots"
    /\ \E outcome \in RobotsOutcomes :
          LET f == AfterRobots(fetch[c], CheckRobotsTxt(outcome))
          IN /\ fetch' = [fetch EXCEPT ![c] = f]
             /\ sem_holders' = Released(f)
    /\ UNCHANGED crawlOthers

FetchJs(c) ==
    /\ fetch[c].pc = "js"
    /\ \E outcome \in JsOutcomes :
          LET f == AfterJs(fetch[c], outcome)
          IN /\ fetch' = [fetch EXCEPT ![c] = f]
             /\ sem_holders' = Released(f)
    /\ UNCHANGED crawlOthers

FetchStatic(c) ==
    /\ fetch[c].pc = "static"
    /\ \E o \in StaticOutcomes :
          LET f == StaticAttempt(fetch[c], o)
          IN /\ fetch' = [fetch EXCEPT ![c] = f]
             /\ sem_holders' = Released(f)
    /\ UNCHANGED crawlOthers

CrawlNext ==
    \E c \in Fetches :
        FetchStart(c) \/ FetchEnter(c) \/ FetchRobots(c) \/ FetchJs(c) \/ FetchStatic(c)

CrawlSpec == CrawlInit /\ [][CrawlNext]_vars

-----------------------------------------------------------------------------
FailureReasons == {"None", "robots", "timeout", "error"}

\* C11: fetch_page never raises; it returns (content, reason) with reason one
\* of None, robots, timeout, error, and content is not None exactly when the
\* reason is None.
C11_FetchPageReturnsPair ==
    \A c \in Fetches :
        fetch[c].pc # "idle" =>
            /\ ~fetch[c].raised
            /\ fetch[c].pc = "done" =>
                  /\ fetch[c].ret.reason \in FailureReasons
                  /\ (fetch[c].ret.content # None) <=> (fetch[c].ret.reason = "None")

C11_Witness ==
    \E c, d \in Fetches :
        /\ fetch[c].pc = "done" /\ fetch[c].last = "client_error"
        /\ fetch[c].ret = [content |-> None, reason |-> "error"]
        /\ fetch[d].pc = "done" /\ fetch[d].ret = [content |-> Some(""), reason |-> "None"]

\* C12: a page request is sent only after robots.txt allowed the URL; a
\* disallowed URL returns (None, robots) with no page request sent and no
\* attempt used.
C12_RobotsBeforeRequest ==
    \A c \in Fetches :
        fetch[c].pc # "idle" =>
            /\ fetch[c].page_requests > 0 => fetch[c].robots_allowed = "yes"
            /\ fetch[c].robots_allowed = "no" =>
                  /\ fetch[c].pc = "done"
                  /\ fetch[c].ret = [content |-> None, reason |-> "robots"]
                  /\ fetch[c].page_requests = 0
                  /\ fetch[c].attempt = 0

C12_Witness ==
    \E c, d \in Fetches :
        /\ fetch[c].pc = "done" /\ fetch[c].robots_allowed = "no"
        /\ fetch[d].pc = "done" /\ fetch[d].robots_allowed = "yes"
        /\ fetch[d].page_requests > 1

\* C20: in _fetch_static a request that timed out is tried once more and then
\* given up with reason timeout; 429 and 503 are retried after 2^attempt
\* seconds within CRAWLER_MAX_RETRIES passes; any other non-200 status ends
\* the call with reason error at once.
C20_RetryPolicy ==
    \A c \in Fetches :
        fetch[c].pc \in {"static", "done"} =>
            /\ fetch[c].timeouts >= 2 =>
                  /\ fetch[c].pc = "done"
                  /\ fetch[c].ret = [content |-> None, reason |-> "timeout"]
            /\ fetch[c].attempt <= CRAWLER_MAX_RETRIES
            /\ fetch[c].last = "retry_status" =>
                  fetch[c].wait_time = Pow2(fetch[c].attempt - 1)
            /\ (fetch[c].last = "status" /\ fetch[c].ret.content = None) =>
                  /\ fetch[c].pc = "done"
                  /\ fetch[c].ret.reason = "error"

-----------------------------------------------------------------------------
\* C13: an address of invalid syntax (one without "@" or with an empty domain
\* part included) and a domain without MX records give a negative result for
\* that address; neither SMTPVerifier.verify nor VerificationAggregator.verify
\* raises for such input.
C13_InvalidInputNeverRaises ==
    \A c \in Calls :
        /\ sv[c].pc # "raised"
        /\ av[c].pc # "raised"
        /\ (sv[c].pc = "done" /\ ~sv[c].email.syntax_ok) => ~sv[c].result.syntax_valid
        /\ (av[c].pc = "done" /\ ~av[c].email.syntax_ok) =>
              /\ ~av[c].ret.syntax_valid
              /\ av[c].ret.verification_status = "invalid"

(***************************************************************************)
(* Batch verification: verification/smtp.py  BulkSMTPVerifier              *)
(* Each task runs SMTPVerifier.verify under the semaphore; what verify     *)
(* does inside is the VerSpec part above, here only its outcome counts.    *)
(***************************************************************************)
max_concurrent == 5

\* addresses of a batch: one that verify can work on, one without "@"
BatchAddressPool == {e \in AddressPool : e.syntax_ok \/ ~HasAt(e.addr)}

BatchSessionOutcomes ==
    {o \in SmtpSessionOutcomes : o.name \in {"accepted_probe_refused"}}

\* the results SMTPVerifier.verify can return for an address with "@"
VerifyReturns(e) ==
    IF ~e.syntax_ok THEN {NewSmtpResult(e)}
    ELSE {[NewSmtpResult(e) EXCEPT !.syntax_valid = TRUE]}
         \cup {[NewSmtpResult(e) EXCEPT !.syntax_valid = TRUE, !.mx_valid = TRUE,
                                        !.smtp_accepts = o.accepts,
                                        !.catch_all = o.catch_all,
                                        !.greylisted = o.greylisted,
                                        !.smtp_error = o.error]
               : o \in BatchSessionOutcomes}

\* a semaphore that lets every task in
SemaphoreFreeAlways(holders) == TRUE

\* asyncio.Semaphore(max_concurrent): a task enters while a slot is free
SemaphoreFree(holders) == holders < max_concurrent

\* what asyncio.gather(..., return_exceptions=True) hands back
Gathered(ts) ==
    [i \in 1..Len(ts) |->
        IF ts[i].pc = "raised" THEN [exception |-> "IndexError"]
        ELSE ts[i].result]

\* the loop that drops the exceptions
CleanResults(results) ==
    SelectSeqRec(results,
                 [i \in 1..Len(results) |-> "exception" \notin DOMAIN results[i]])

BatchInit ==
    /\ tasks = <<>>
    /\ bsem = 0
    /\ clean_results = <<>>
    /\ bpc = "idle"
    /\ BatchOthersIdle

\* tasks = [self._verify_with_limit(email) for email in emails]
BatchStart ==
    /\ bpc = "idle"
    /\ \E es \in SeqsUpTo(BatchAddressPool, MaxBatch) :
          tasks' = [i \in 1..Len(es) |->
                       [email |-> es[i], pc |-> "waiting", result |-> None]]
    /\ bpc' = "gathering"
    /\ UNCHANGED <<bsem, clean_results, batchOthers>>

\* async with self.semaphore
TaskAcquire(i) ==
    /\ bpc = "gathering"
    /\ i <= Len(tasks)
    /\ tasks[i].pc = "waiting"
    /\ SemaphoreFree(bsem)
    /\ bsem' = bsem + 1
    /\ tasks' = [tasks EXCEPT ![i].pc = "running"]
    /\ UNCHANGED <<clean_results, bpc, batchOthers>>

\* self.verifier.verify(email) returns or raises; the semaphore is released
TaskFinish(i) ==
    /\ bpc = "gathering"
    /\ i <= Len(tasks)
    /\ tasks[i].pc = "running"
    /\ IF HasAt(tasks[i].email.addr)
       THEN \E r \in VerifyReturns(tasks[i].email) :
               tasks' = [tasks EXCEPT ![i].pc = "done", ![i].result = r]
       ELSE tasks' = [tasks EXCEPT ![i].pc = "raised"]
    /\ bsem' = bsem - 1
    /\ UNCHANGED <<clean_results, bpc, batchOthers>>

BatchReturn ==
    /\ bpc = "gathering"
    /\ \A i \in 1..Len(tasks) : tasks[i].pc \in {"done", "raised"}
    /\ clean_results' = CleanResults(Gathered(tasks))
    /\ bpc' = "returned"
    /\ UNCHANGED <<tasks, bsem, batchOthers>>

BatchNext ==
    \/ BatchStart
    \/ \E i \in 1..MaxBatch : TaskAcquire(i) \/ TaskFinish(i)
    \/ BatchReturn

BatchSpec == BatchInit /\ [][BatchNext]_vars

-----------------------------------------------------------------------------
InProgress == {i \in 1..Len(tasks) : tasks[i].pc = "running"}

\* C14: verify_batch is never aborted by one address: every address whose
\* verification returned contributes exactly one result, in input order,
\* the addresses whose verification raised are left out, and at most
\* max_concurrent verifications are in progress at any moment.
C14_BatchSurvivesFailures ==
    /\ Cardinality(InProgress) <= max_concurrent
    /\ bpc = "returned" =>
          clean_results =
              SelectSeqRec([i \in 1..Len(tasks) |-> tasks[i].result],
                           [i \in 1..Len(tasks) |-> tasks[i].pc = "done"])

C14_Witness ==
    /\ bpc = "returned"
    /\ Len(tasks) > max_concurrent
    /\ \E i \in 1..Len(tasks) : tasks[i].pc = "raised"
    /\ clean_results # <<>>
    /\ Len(clean_results) < Len(tasks)

(***************************************************************************)
(* Fallback inference: discovery/fallback_engine.py                        *)
(***************************************************************************)
FALLBACK_PATTERNS ==
    <<"first.last", "first_last", "f.last", "flast", "first-last", "firstlast">>

FallbackConfidence == Rat(65, 100)

\* self.domain of the engine
FallbackDomain == <<"d", ".", "i", "o">>

\* _generate_from_pattern; NoEmail stands for None
FallbackGenerate(first_name, last_name, pattern) ==
    LET first == RemoveChar(LowerStr(Strip(first_name)), " ")
        last  == RemoveChar(LowerStr(Strip(last_name)), " ")
        local == CASE pattern = "first.last" -> first \o <<".">> \o last
                   [] pattern = "first_last" -> first \o <<"_">> \o last
                   [] pattern = "first-last" -> first \o <<"-">> \o last
                   [] pattern = "firstlast"  -> first \o last
                   [] pattern = "f.last"     -> <<first[1], ".">> \o last
                   [] pattern = "flast"      -> <<first[1]>> \o last
                   [] OTHER -> <<>>
    IN IF first = <<>> \/ last = <<>> THEN NoEmail
       ELSE IF local = <<>> THEN NoEmail
       ELSE local \o <<"@">> \o FallbackDomain

\* the results VerificationAggregator.verify can return for an address
\* with "@": early returns, the SMTP outcomes, and its own except branch
AggVerifyReturns(addr) ==
    LET r0 == NewVerificationResult([addr |-> addr]) IN
    {[r0 EXCEPT !.verification_status = "invalid"]}
    \cup {[r0 EXCEPT !.syntax_valid = TRUE, !.verification_status = "invalid"]}
    \cup {DetermineStatus([r0 EXCEPT !.syntax_valid = TRUE, !.mx_exists = TRUE,
                                     !.smtp_accepted = o.accepted,
                                     !.catch_all = o.catch_all])
          : o \in AggSessionOutcomes}
    \cup {[r0 EXCEPT !.syntax_valid = TRUE, !.verification_status = "unknown",
                     !.confidence = Rat(3, 10)]}

\* a loop that keeps every candidate not found invalid
FallbackKeepsNotInvalid(result) == result.verification_status # "invalid"

\* if result.verification_status == "valid"
FallbackKeeps(result) == result.verification_status = "valid"

FallbackCandidate(email, pattern) ==
    [email |-> email, source |-> "verification_inferred", pattern_used |-> pattern,
     confidence |-> FallbackConfidence, verification_status |-> "valid",
     show_by_default |-> TRUE]

FallbackNames ==
    [first_name : {<<>>, <<"J">>, <<" ", "J", "o", " ">>},
     last_name  : {<<" ">>, <<"D", "o">>}]

FbInit == fb = IdleFrame /\ FbOthersIdle

FbStart ==
    /\ fb.pc = "idle"
    /\ \E n \in FallbackNames :
          fb' = [pc |-> "loop", first_name |-> n.first_name,
                 last_name |-> n.last_name, k |-> 1, candidates |-> <<>>,
                 tried |-> <<>>]
    /\ UNCHANGED fbOthers

\* one pass of the loop over FALLBACK_PATTERNS
FbTryPattern ==
    /\ fb.pc = "loop"
    /\ fb.k <= Len(FALLBACK_PATTERNS)
    /\ LET pattern == FALLBACK_PATTERNS[fb.k]
           email == FallbackGenerate(fb.first_name, fb.last_name, pattern)
       IN IF email = NoEmail
          THEN fb' = [fb EXCEPT !.k = @ + 1]
          ELSE \E result \in AggVerifyReturns(email) :
                  fb' = [fb EXCEPT
                            !.k = @ + 1,
                            !.tried = Append(@, [email |-> email, pattern |-> pattern,
                                                 result |-> result]),
                            !.candidates =
                                IF FallbackKeeps(result)
                                THEN Append(@, FallbackCandidate(email, pattern))
                                ELSE @]
    /\ UNCHANGED fbOthers

FbReturn ==
    /\ fb.pc = "loop"
    /\ fb.k > Len(FALLBACK_PATTERNS)
    /\ fb' = [fb EXCEPT !.pc = "done"]
    /\ UNCHANGED fbOthers

FbNext == FbStart \/ FbTryPattern \/ FbReturn

FbSpec == FbInit /\ [][FbNext]_vars

-----------------------------------------------------------------------------
\* C15: fallback_infer keeps only the candidates whose verification was an
\* SMTP accept: every record it holds has source verification_inferred,
\* verification_status valid and confidence 0.65, below the 1.0 of a
\* discovered address, and a candidate not accepted is never among them.
C15_FallbackKeepsOnlyAccepted ==
    fb.pc # "idle" =>
        /\ \A i \in 1..Len(fb.candidates) :
              /\ fb.candidates[i].source = "verification_inferred"
              /\ fb.candidates[i].verification_status = "valid"
              /\ fb.candidates[i].confidence = Rat(65, 100)
              /\ RLt(fb.candidates[i].confidence, ROne)
        /\ [i \in 1..Len(fb.candidates) |->
               <<fb.candidates[i].email, fb.candidates[i].pattern_used>>]
           = SelectSeqRec([i \in 1..Len(fb.tried) |->
                              <<fb.tried[i].email, fb.tried[i].pattern>>],
                          [i \in 1..Len(fb.tried) |-> fb.tried[i].result.smtp_accepted])

C15_Witness ==
    /\ fb.pc = "done"
    /\ Len(fb.candidates) = 2
    /\ \E i \in 1..Len(fb.tried) : fb.tried[i].result.verification_status = "catch_all"
    /\ \E i \in 1..Len(fb.tried) : fb.tried[i].result.verification_status = "unknown"

(***************************************************************************)
(* Response ordering: discovery/enforcer.py                                *)
(*   ResponseEnforcer.enforce_response_ordering                            *)
(***************************************************************************)
\* email.get("source", "unknown")
SourceOf(r) == IF "source" \in DOMAIN r THEN r.source ELSE "unknown"

\* x.get("confidence", 0)
ConfidenceKey(r) == IF "confidence" \in DOMAIN r THEN r.confidence ELSE RZero

\* an insertion that puts a record before its equals
RECURSIVE InsertByConfidenceBeforeEquals(_, _)
InsertByConfidenceBeforeEquals(sorted, e) ==
    IF sorted = <<>> THEN <<e>>
    ELSE IF RLe(ConfidenceKey(Head(sorted)), ConfidenceKey(e)) THEN <<e>> \o sorted
    ELSE <<Head(sorted)>> \o InsertByConfidenceBeforeEquals(Tail(sorted), e)

\* list.sort(key=confidence, reverse=True) is stable: a record goes behind
\* every record of the same or a larger key that came before it
RECURSIVE InsertByConfidence(_, _)
InsertByConfidence(sorted, e) ==
    IF sorted = <<>> THEN <<e>>
    ELSE IF RLt(ConfidenceKey(Head(sorted)), ConfidenceKey(e)) THEN <<e>> \o sorted
    ELSE <<Head(sorted)>> \o InsertByConfidence(Tail(sorted), e)

RECURSIVE SortByConfidence(_)
SortByConfidence(s) ==
    IF s = <<>> THEN <<>>
    ELSE InsertByConfidence(SortByConfidence(SubSeq(s, 1, Len(s) - 1)), s[Len(s)])

GroupOf(records, source) ==
    SelectSeqRec(records, [i \in 1..Len(records) |-> SourceOf(records[i]) = source])

EnforceResponseOrdering(records) ==
    SortByConfidence(GroupOf(records, "discovered"))
    \o SortByConfidence(GroupOf(records, "verification_inferred"))
    \o SortByConfidence(GroupOf(records, "inferred"))

\* records handed to the ordering, before they are numbered
OrderRecordPool ==
    [source : {"discovered", "verification_inferred", "inferred", "generated"},
     confidence : {Rat(1, 2), ROne}]
    \cup {[source |-> "inferred"], [confidence |-> ROne]}

\* the position in the argument tells two equal dicts apart
Numbered(rs) == [i \in 1..Len(rs) |-> [id |-> i] @@ rs[i]]

OrdInit == ord_in = <<>> /\ ord_out = <<>> /\ OrdOthersIdle

\* one call on a fresh argument
OrderCall ==
    /\ ord_in = <<>>
    /\ \E rs \in SeqsUpTo(OrderRecordPool, MaxRecords) :
          /\ ord_in' = Numbered(rs)
          /\ ord_out' = EnforceResponseOrdering(Numbered(rs))
    /\ UNCHANGED ordOthers

OrdNext == OrderCall

OrdSpec == OrdInit /\ [][OrdNext]_vars

-----------------------------------------------------------------------------
GroupRank(r) ==
    CASE SourceOf(r) = "discovered" -> 1
      [] SourceOf(r) = "verification_inferred" -> 2
      [] SourceOf(r) = "inferred" -> 3
      [] OTHER -> 4

\* C16: enforce_response_ordering returns discovered records first, then
\* verification_inferred, then inferred; inside a group the confidence never
\* rises, and records of equal confidence keep the order of the argument.
C16_ThreeGroupsStableDescending ==
    /\ \A i \in 1..Len(ord_out) :
          /\ GroupRank(ord_out[i]) <= 3
          /\ \E k \in 1..Len(ord_in) : ord_in[k] = ord_out[i]
    /\ \A i, j \in 1..Len(ord_out) :
          i < j =>
              /\ GroupRank(ord_out[i]) <= GroupRank(ord_out[j])
              /\ GroupRank(ord_out[i]) = GroupRank(ord_out[j]) =>
                    /\ RLe(ConfidenceKey(ord_out[j]), ConfidenceKey(ord_out[i]))
                    /\ ConfidenceKey(ord_out[i]) = ConfidenceKey(ord_out[j])
                          => ord_out[i].id < ord_out[j].id

C16_Witness ==
    /\ Len(ord_in) = 3 /\ Len(ord_out) = 3
    /\ SourceOf(ord_in[1]) = "inferred"
    /\ SourceOf(ord_in[2]) = "discovered" /\ SourceOf(ord_in[3]) = "discovered"
    /\ ConfidenceKey(ord_in[2]) = ConfidenceKey(ord_in[3])
    /\ ord_out = <<ord_in[2], ord_in[3], ord_in[1]>>

\* how often a record stands in a list
TimesIn(r, s) == Cardinality({i \in 1..Len(s) : s[i] = r})

\* C28: enforce_response_ordering loses no record: whatever the source of
\* each record (discovered, verification_inferred, inferred, generated,
\* missing or other), the output holds every input record exactly once.
C28_OrderingLosesNoRecord ==
    /\ Len(ord_out) = Len(ord_in)
    /\ \A k \in 1..Len(ord_in) : TimesIn(ord_in[k], ord_out) = 1

\* C28 holds for the records of the three known sources: each of them is
\* in the output exactly once
C28_KnownSourcesKept ==
    \A k \in 1..Len(ord_in) :
        TimesIn(ord_in[k], ord_out) = (IF GroupRank(ord_in[k]) <= 3 THEN 1 ELSE 0)

-----------------------------------------------------------------------------
(* Decay of a stored record (scoring/confidence_with_decay.py)             *)

\* ages that make the curve visible: fresh, below the cap, beyond the cap,
\* and a reference date 30 days after now ((now - reference_date).days < 0)
DecayAges == AgeDays \cup {1000, -30}

\* a deliverability or association score: k/20 for k = 0..20
LayerValues == {Rat(k, 20) : k \in 0..20}

\* a stored record: the existence fact, its deliverability score, the age of
\* its reference date and its verification status; nothing decayed yet
StoredRecords ==
    {[source |-> s,
      existence_confidence |-> e,
      deliverability_confidence |-> dl,
      days_old |-> days,
      verification_status |-> st,
      decayed |-> None] :
        s \in Sources, e \in {RZero, ROne}, dl \in LayerValues,
        days \in DecayAges, st \in Statuses}

DecayInit ==
    /\ rec \in {r \in StoredRecords :
                    r.source = "discovered" => r.existence_confidence = ROne}
    /\ smtp = NoSmtp
    /\ decays = 0
    /\ ScoreOthersIdle

\* apply_decay called on the existence and on the deliverability of the record
DecayRecord ==
    /\ rec.decayed = None
    /\ rec' = [rec EXCEPT !.decayed =
                  Some([existence |->
                            ApplyDecay(rec.existence_confidence, rec.source,
                                       rec.days_old, rec.verification_status),
                        deliverability |->
                            ApplyDecay(rec.deliverability_confidence, rec.source,
                                       rec.days_old, rec.verification_status)])]
    /\ UNCHANGED <<smtp, decays, scoreOthers>>

DecayNext == DecayRecord

DecaySpec == DecayInit /\ [][DecayNext]_vars

\* the discovered+verified curve: 5% per 90 days, at most 50% in total
DiscoveredVerifiedCurve(base, days) ==
    RMul(base, RSub(ROne, RMin(RMul(Rat(5, 100 * 90), Rat(days, 1)), Rat(1, 2))))

\* C17: decay of a discovered record with verification_status valid leaves
\* existence at 1.0 and reduces every deliverability value in [0,1] by 5% per
\* 90 days of age; for every source, status and age the reduction that
\* apply_decay makes is at most 50% of the base value.
C17_DeliverabilityDecaysExistenceDoesNot ==
    rec.decayed # None =>
        LET out == rec.decayed[1] IN
        /\ (rec.source = "discovered" /\ rec.verification_status = "valid") =>
              /\ out.existence.final_confidence = ROne
              /\ out.deliverability.final_confidence =
                     DiscoveredVerifiedCurve(rec.deliverability_confidence,
                                             rec.days_old)
        /\ RLe(RMul(rec.existence_confidence, Rat(1, 2)),
               out.existence.final_confidence)
        /\ RLe(RMul(rec.deliverability_confidence, Rat(1, 2)),
               out.deliverability.final_confidence)

\* the parts of C17 that do not depend on a deliverability of exactly 1.0
C17_HoldsBelowOne ==
    rec.decayed # None =>
        LET out == rec.decayed[1] IN
        /\ (rec.source = "discovered" /\ rec.verification_status = "valid") =>
              /\ out.existence.final_confidence = ROne
              /\ rec.deliverability_confidence # ROne =>
                    out.deliverability.final_confidence =
                        DiscoveredVerifiedCurve(rec.deliverability_confidence,
                                                rec.days_old)
        /\ RLe(RMul(rec.existence_confidence, Rat(1, 2)),
               out.existence.final_confidence)
        /\ RLe(RMul(rec.deliverability_confidence, Rat(1, 2)),
               out.deliverability.final_confidence)

\* C30: apply_decay never increases a score: for every base value, source,
\* status and reference timestamp, one later than now included, the decay
\* factor lies in [0.5, 1] and final_confidence is at most base_confidence.
C30_DecayNeverIncreases ==
    rec.decayed # None =>
        LET out == rec.decayed[1] IN
        /\ RLe(Rat(1, 2), out.existence.decay_factor)
        /\ RLe(out.existence.decay_factor, ROne)
        /\ RLe(out.existence.final_confidence, rec.existence_confidence)
        /\ RLe(Rat(1, 2), out.deliverability.decay_factor)
        /\ RLe(out.deliverability.decay_factor, ROne)
        /\ RLe(out.deliverability.final_confidence,
               rec.deliverability_confidence)

\* C30 holds for every reference date that is not later than now
C30_HoldsForPastDates ==
    (rec.decayed # None /\ rec.days_old >= 0) => C30_DecayNeverIncreases

-----------------------------------------------------------------------------
(* Scoring of one verified candidate: association, deliverability and the  *)
(* response rules (scoring/confidence_layered.py, discovery/enforcer.py,   *)
(*  api/routes/search.py)                                                  *)

\* the results SMTPVerifier.verify can return: the MX lookup runs only after
\* a valid syntax, the SMTP session only after a valid MX, and catch_all is
\* set only together with smtp_accepts
VerifierResults ==
    {sm \in SmtpResults :
        /\ sm.mx_valid => sm.syntax_valid
        /\ sm.smtp_accepts => sm.mx_valid
        /\ sm.catch_all => sm.smtp_accepts}

\* last_verified_at: absent, or so many days before now
LastVerified == {None} \cup {Some(d) : d \in AgeDays}

\* score_deliverability with the catch-all rule applied before the age rule
CatchAllBeforeAge(catch_all, last_verified_at) ==
    IF last_verified_at # None /\ last_verified_at[1] > 180 THEN Rat(85, 100)
    ELSE IF last_verified_at # None /\ last_verified_at[1] > 30 THEN Rat(90, 100)
    ELSE IF catch_all THEN Rat(1, 2)
    ELSE Rat(95, 100)

\* score_deliverability, accepted address: 0.95, lowered with the age of the
\* verification, and 0.5 for a catch-all domain whatever the age
AcceptedDeliverability(catch_all, last_verified_at) ==
    IF catch_all THEN Rat(1, 2)
    ELSE IF last_verified_at # None /\ last_verified_at[1] > 180 THEN Rat(85, 100)
    ELSE IF last_verified_at # None /\ last_verified_at[1] > 30 THEN Rat(90, 100)
    ELSE Rat(95, 100)

\* LAYER 3
ScoreDeliverability(sm, last_verified_at) ==
    IF ~sm.present THEN RZero
    ELSE IF ~Interpret(sm).mx_valid THEN RZero
    ELSE IF ~Interpret(sm).syntax_valid THEN RZero
    ELSE IF ~Interpret(sm).smtp_accepts THEN RZero
    ELSE AcceptedDeliverability(Interpret(sm).catch_all, last_verified_at)

\* a generated candidate (confidence 0.0) before it is scored
NewCandidate ==
    [source |-> "inferred",
     person_match_confidence |-> RNone,
     verification_signal |-> RNone,
     pattern_confidence_used |-> RNone,
     deliverability_confidence |-> RNone,
     last_verified_at |-> None,
     confidence |-> RZero,
     is_factual |-> FALSE,
     show_by_default |-> FALSE,
     label |-> ""]

\* the candidate and the result of its one verification
LayerInit ==
    /\ rec = NewCandidate
    /\ smtp \in {NoSmtp} \cup VerifierResults
    /\ decays = 0
    /\ ScoreOthersIdle

ScoreCandidateAssociation ==
    /\ \E p \in {NoPattern, "first.last"}, pc \in PatternConfidences :
          LET a == ScorePersonAssociation(p, pc, smtp)
          IN rec' = [rec EXCEPT
                        !.person_match_confidence = a.person_match_confidence,
                        !.verification_signal = a.verification_signal,
                        !.pattern_confidence_used =
                            IF p = NoPattern \/ RLt(pc, Rat(6, 10))
                            THEN RNone ELSE pc]
    /\ UNCHANGED <<smtp, decays, scoreOthers>>

ScoreCandidateDeliverability ==
    /\ \E lv \in LastVerified :
          rec' = [rec EXCEPT
                     !.deliverability_confidence = ScoreDeliverability(smtp, lv),
                     !.last_verified_at = lv]
    /\ UNCHANGED <<smtp, decays, scoreOthers>>

\* search_person builds the response entry of a scored candidate: no
\* confidence key, show_by_default from the person-match confidence
BuildEmailResult ==
    /\ rec.person_match_confidence # RNone
    /\ rec.deliverability_confidence # RNone
    /\ rec' = [rec EXCEPT
                  !.confidence = RNone,
                  !.show_by_default =
                      ~RLt(rec.person_match_confidence, Rat(75, 100))]
    /\ UNCHANGED <<smtp, decays, scoreOthers>>

LayerNext ==
    \/ ScoreCandidateAssociation
    \/ ScoreCandidateDeliverability
    \/ BuildEmailResult
    \/ EnforceInferred

LayerSpec == LayerInit /\ [][LayerNext]_vars

\* C18: a candidate whose SMTP result has catch_all true gets deliverability
\* 0.5 whatever the age of the verification; its association gets the 0.10
\* catch-all signal and never the 0.55 accept signal; and show_by_default is
\* false whenever its association is below 0.75.
C18_CatchAllScoring ==
    (smtp.present /\ smtp.catch_all) =>
        /\ rec.deliverability_confidence # RNone =>
              rec.deliverability_confidence = Rat(1, 2)
        /\ rec.person_match_confidence # RNone =>
              /\ rec.verification_signal # Rat(55, 100)
              /\ rec.pattern_confidence_used # RNone =>
                    /\ rec.verification_signal = Rat(10, 100)
                    /\ rec.person_match_confidence =
                           RAdd(RMul(rec.pattern_confidence_used, Rat(4, 10)),
                                Rat(10, 100))
              /\ RLt(rec.person_match_confidence, Rat(75, 100)) =>
                    ~rec.show_by_default

C18_Witness ==
    /\ smtp.present /\ smtp.catch_all
    /\ rec.deliverability_confidence = Rat(1, 2)
    /\ rec.last_verified_at = Some(400)
    /\ rec.pattern_confidence_used = ROne
    /\ rec.person_match_confidence = Rat(1, 2)
    /\ rec.verification_signal = Rat(10, 100)
    /\ ~rec.show_by_default
    /\ rec.label = "Generated (unverified) - not shown by default"

-----------------------------------------------------------------------------
(* Pattern performance tracking (companies/pattern_tracker.py)             *)

MaxTests == 5

RMax(x, y) == IF RLt(x, y) THEN y ELSE x

\* a recalculation that starts to adjust after a single verification
NotEnoughDataBelowOne(verification_count) == verification_count < 1

\* _recalculate_pattern_confidence: not enough data to adjust yet
NotEnoughData(verification_count) == verification_count < 2

\* PatternTracker._recalculate_pattern_confidence
RecalculatePatternConfidence(initial_confidence, success_rate, verification_count) ==
    IF NotEnoughData(verification_count) THEN initial_confidence
    ELSE IF ~RLt(success_rate, Rat(80, 100)) /\ verification_count >= 3
    THEN RMin(RAdd(initial_confidence, Rat(5, 100)), Rat(95, 100))
    ELSE IF RLt(success_rate, Rat(60, 100))
    THEN RMax(RSub(initial_confidence, Rat(10, 100)), Rat(1, 2))
    ELSE initial_confidence

\* the counters record_pattern_test creates when the metadata has none
NewTracking ==
    [pattern_attempts |-> 0, pattern_successes |-> 0, pattern_verifications |-> 0]

\* company.pattern_confidence as the detector, the people service or the
\* column default leave it
InitialConfidences ==
    {RZero, Rat(3, 10), Rat(1, 2), Rat(6, 10), Rat(2, 3), Rat(9, 10),
     Rat(93, 100), ROne}

VerificationStatuses == {"valid", "invalid", "catch_all", "unknown"}

TrackInit ==
    /\ company \in {[pattern_confidence |-> c, metadata |-> None,
                     old_confidence |-> RNone] : c \in InitialConfidences}
    /\ TrackOthersIdle

\* PatternTracker.record_pattern_test for the company
RecordPatternTest(verification_status, success) ==
    /\ IF company.metadata = None THEN TRUE
       ELSE company.metadata[1].pattern_attempts < MaxTests
    /\ LET before == IF company.metadata = None THEN NewTracking
                     ELSE company.metadata[1]
           counted == success \/ verification_status = "valid"
           attempts == before.pattern_attempts + 1
           successes == before.pattern_successes + (IF counted THEN 1 ELSE 0)
           verifications ==
               before.pattern_verifications + (IF counted THEN 1 ELSE 0)
           success_rate == Rat(successes, attempts)
           old_confidence == company.pattern_confidence
           new_confidence ==
               RecalculatePatternConfidence(company.pattern_confidence,
                                            success_rate, verifications)
       IN company' = [pattern_confidence |-> new_confidence,
                      metadata |-> Some([pattern_attempts |-> attempts,
                                         pattern_successes |-> successes,
                                         pattern_verifications |-> verifications]),
                      old_confidence |-> old_confidence]
    /\ UNCHANGED trackOthers

TrackNext ==
    \E st \in VerificationStatuses, ok \in BOOLEAN : RecordPatternTest(st, ok)

TrackSpec == TrackInit /\ [][TrackNext]_vars

\* C19: after any sequence of record_pattern_test calls the tracker has never
\* raised the confidence to a value above 0.95, never lowered it to a value
\* below 0.5, and has left it unchanged as long as fewer than 2 verification
\* events were recorded.
C19_TrackerAdjustmentBounded ==
    company.old_confidence # RNone =>
        /\ RLt(company.old_confidence, company.pattern_confidence) =>
              RLe(company.pattern_confidence, Rat(95, 100))
        /\ RLt(company.pattern_confidence, company.old_confidence) =>
              RLe(Rat(1, 2), company.pattern_confidence)
        /\ company.pattern_confidence # company.old_confidence =>
              /\ company.metadata[1].pattern_verifications >= 2
              /\ company.metadata[1].pattern_attempts >= 2

C19_Witness ==
    /\ company.old_confidence = Rat(93, 100)
    /\ company.pattern_confidence = Rat(95, 100)
    /\ company.metadata[1].pattern_verifications = 3

\* the floor is met as well: a failing pattern at 0.6 is lowered to 0.5
C19_FloorReached ==
    /\ company.old_confidence = Rat(6, 10)
    /\ company.pattern_confidence = Rat(1, 2)
    /\ company.metadata[1].pattern_verifications = 2

\* success rate after the last call: pattern_successes / pattern_attempts
LowSuccessRate ==
    RLt(Rat(company.metadata[1].pattern_successes,
            company.metadata[1].pattern_attempts), Rat(60, 100))

\* C26: a record_pattern_test call after which at least 2 tests are recorded
\* and the success rate is below 0.6 lowers the confidence by 0.10, down to
\* the 0.5 floor, also when every recorded test failed.
C26_LowSuccessRateLowersConfidence ==
    (/\ company.old_confidence # RNone
     /\ company.metadata[1].pattern_attempts >= 2
     /\ LowSuccessRate)
        => company.pattern_confidence =
               RMax(RSub(company.old_confidence, Rat(10, 100)), Rat(1, 2))

\* C26 holds once two of the recorded tests were successful
C26_HoldsAfterTwoSuccesses ==
    (/\ company.old_confidence # RNone
     /\ company.metadata[1].pattern_verifications >= 2
     /\ LowSuccessRate)
        => company.pattern_confidence =
               RMax(RSub(company.old_confidence, Rat(10, 100)), Rat(1, 2))

-----------------------------------------------------------------------------
(* Concurrent verify calls on one VerificationAggregator                   *)
(* (verification/aggregator.py).  A coroutine runs without interruption    *)
(* up to an await that suspends: verify suspends first in the MX lookup of *)
(* _check_mx and next in _check_smtp; _verify_syntax never suspends.       *)

\* verify up to its first suspension: self.result = VerificationResult(email),
\* then _verify_syntax, then either the early return or the MX lookup
AvEnter(c) ==
    /\ av[c].pc = "idle"
    /\ sv[c].pc = "idle"
    /\ \E e \in AddressPool :
          IF ~HasAt(e.addr)
          THEN /\ self_result' = self_result
               /\ av' = [av EXCEPT ![c] =
                            [pc |-> "raised", email |-> e, steps |-> <<>>,
                             ret |-> [email |-> <<>>]]]
          ELSE LET r == IF e.syntax_ok
                        THEN [NewVerificationResult(e) EXCEPT
                                  !.syntax_valid = TRUE]
                        ELSE [NewVerificationResult(e) EXCEPT
                                  !.verification_status = "invalid"]
               IN /\ self_result' = r
                  /\ av' = [av EXCEPT ![c] =
                               [pc |-> IF e.syntax_ok THEN "mx" ELSE "done",
                                email |-> e, steps |-> <<"syntax">>,
                                ret |-> IF e.syntax_ok THEN [email |-> <<>>]
                                        ELSE r]]
    /\ UNCHANGED <<sv, wire, verOthers>>

ConcInit == VerInit

ConcNext ==
    \E c \in Calls :
        \/ AvEnter(c)
        \/ AvMx(c)
        \/ AvSmtp(c)

ConcSpec == ConcInit /\ [][ConcNext]_vars

\* C29: concurrent verify calls on one aggregator do not interfere: each
\* call returns a result whose email and flags belong to the address it was
\* called with.
C29_ConcurrentVerifiesDoNotInterfere ==
    \A c \in Calls :
        av[c].pc = "done" =>
            /\ av[c].ret.email = av[c].email.addr
            /\ av[c].ret.syntax_valid = av[c].email.syntax_ok

-----------------------------------------------------------------------------
(* What is reported for a greylisted address (verification/smtp.py,        *)
(*  verification/interpreter.py, scoring/confidence_layered.py)            *)

\* the SMTPVerificationResult as the interpreter and the layers receive it
AsSmtpResult(r) ==
    [present |-> TRUE, syntax_valid |-> r.syntax_valid, mx_valid |-> r.mx_valid,
     smtp_accepts |-> r.smtp_accepts, catch_all |-> r.catch_all]

\* score_deliverability: the reason given with the confidence
DeliverabilityReason(sm) ==
    IF ~sm.present THEN "No verification performed"
    ELSE IF ~Interpret(sm).mx_valid THEN "No valid MX records"
    ELSE IF ~Interpret(sm).syntax_valid THEN "Email syntax invalid"
    ELSE IF ~Interpret(sm).smtp_accepts THEN "SMTP server rejected this email"
    ELSE IF Interpret(sm).catch_all
    THEN "Domain is catch-all (accepts any address)"
    ELSE "SMTP accepted"

\* what the interpreter and the confidence layers make of a verifier result
OutcomeReported(r) ==
    [interpretation |-> Interpret(AsSmtpResult(r)),
     error |-> r.smtp_error,
     signal |-> ScorePersonAssociation("first.last", ROne, AsSmtpResult(r))
                    .verification_signal,
     deliverability |-> ScoreDeliverability(AsSmtpResult(r), None),
     reason |-> DeliverabilityReason(AsSmtpResult(r))]

\* RCPT TO was answered by a temporary failure
RcptGreylisted(r) == r.syntax_valid /\ r.mx_valid /\ r.greylisted

\* RCPT TO was refused for good
RcptRefused(r) ==
    /\ r.syntax_valid /\ r.mx_valid /\ r.smtp_error = "None"
    /\ ~r.greylisted /\ ~r.smtp_accepts /\ ~r.catch_all

\* C24: a temporary (4xx) answer to RCPT TO sets greylisted and is not
\* treated as a reject: what is reported for a greylisted address differs
\* from what is reported for an explicitly refused one.
C24_GreylistedIsNotARefusal ==
    \A c, d \in Calls :
        (/\ sv[c].pc = "done" /\ sv[d].pc = "done"
         /\ RcptGreylisted(sv[c].result) /\ RcptRefused(sv[d].result))
            => OutcomeReported(sv[c].result) # OutcomeReported(sv[d].result)

\* the part of C24 that holds: a greylisted result is flagged, and is
\* neither accepted nor a catch-all
C24_GreylistedIsFlagged ==
    \A c, d \in Calls :
        (/\ sv[c].pc = "done" /\ sv[d].pc = "done"
         /\ RcptGreylisted(sv[c].result) /\ RcptRefused(sv[d].result))
            => /\ sv[c].result # sv[d].result
               /\ ~sv[c].result.smtp_accepts /\ ~sv[c].result.catch_all

\* C27: every result SMTPVerifier.verify returns satisfies: smtp_accepts
\* implies syntax_valid and mx_valid, mx_valid implies syntax_valid,
\* catch_all implies smtp_accepts, and greylisted implies neither
\* smtp_accepts nor catch_all.
C27_ReturnedFlagsConsistent ==
    \A c \in Calls :
        sv[c].pc = "done" =>
            LET r == sv[c].result IN
            /\ r.smtp_accepts => (r.syntax_valid /\ r.mx_valid)
            /\ r.mx_valid => r.syntax_valid
            /\ r.catch_all => r.smtp_accepts
            /\ r.greylisted => (~r.smtp_accepts /\ ~r.catch_all)

C27_Witness ==
    \E c, d, e \in Calls :
        /\ sv[c].pc = "done" /\ sv[d].pc = "done" /\ sv[e].pc = "done"
        /\ sv[c].result.greylisted /\ sv[c].result.mx_valid
        /\ sv[d].result.catch_all /\ sv[d].result.smtp_accepts
        /\ sv[e].result.syntax_valid /\ ~sv[e].result.mx_valid

-----------------------------------------------------------------------------
(* The SMTP dialogue of SMTPVerifier._check_smtp and                       *)
(* _detect_silent_catchall, one connection per call (verification/smtp.py) *)

\* how the server answers RCPT TO for the target address
RcptAnswers ==
    {"response_4xx", "accepted", "refused_45x", "refused", "auth", "timeout"}

\* how the server answers RCPT TO for the random address of the probe
ProbeAnswers == {"accepted", "refused", "auth", "timeout"}

\* async with aiosmtplib.SMTP(...): the connection is open, nothing sent yet
HsConnect(c) ==
    /\ sv[c].pc = "idle"
    /\ av[c].pc = "idle"
    /\ sv' = [sv EXCEPT ![c] =
                 [pc |-> "ehlo", sent |-> <<>>, answer |-> "none",
                  smtp_accepts |-> FALSE, catch_all |-> FALSE,
                  greylisted |-> FALSE, smtp_error |-> "None"]]
    /\ UNCHANGED <<av, self_result, wire, verOthers>>

HsEhlo(c) ==
    /\ sv[c].pc = "ehlo"
    /\ \E ok \in BOOLEAN :
          sv' = [sv EXCEPT ![c].sent = Append(@, "EHLO"),
                           ![c].pc = IF ok THEN "mail" ELSE "closed",
                           ![c].smtp_error = IF ok THEN @ ELSE "EHLO failed"]
    /\ UNCHANGED <<av, self_result, wire, verOthers>>

HsMail(c) ==
    /\ sv[c].pc = "mail"
    /\ \E ok \in BOOLEAN :
          sv' = [sv EXCEPT ![c].sent = Append(@, "MAIL FROM"),
                           ![c].pc = IF ok THEN "rcpt" ELSE "closed",
                           ![c].smtp_error = IF ok THEN @ ELSE "MAIL FROM failed"]
    /\ UNCHANGED <<av, self_result, wire, verOthers>>

\* where _check_smtp goes after the answer to RCPT TO: a 4xx response resets
\* and returns, an accepted address not flagged catch-all is followed by the
\* probe, a timeout leaves through the outer handler, the rest reset
AfterRcpt(answer) ==
    CASE answer = "response_4xx" -> "rset"
      [] answer = "accepted" -> "probe"
      [] answer = "timeout" -> "closed"
      [] OTHER -> "rset"

HsRcpt(c) ==
    /\ sv[c].pc = "rcpt"
    /\ \E a \in RcptAnswers :
          sv' = [sv EXCEPT
                    ![c].sent = Append(@, "RCPT TO"),
                    ![c].answer = a,
                    ![c].pc = AfterRcpt(a),
                    ![c].smtp_accepts = a \in {"accepted", "auth"},
                    ![c].catch_all = (a = "auth"),
                    ![c].greylisted = a \in {"response_4xx", "refused_45x"},
                    ![c].smtp_error = IF a = "timeout" THEN "SMTP timeout" ELSE @]
    /\ UNCHANGED <<av, self_result, wire, verOthers>>

\* _detect_silent_catchall: RCPT TO for a random address of the domain
HsProbe(c) ==
    /\ sv[c].pc = "probe"
    /\ \E a \in ProbeAnswers :
          sv' = [sv EXCEPT ![c].sent = Append(@, "RCPT TO probe"),
                           ![c].pc = "rset",
                           ![c].catch_all = a \in {"accepted", "auth"}]
    /\ UNCHANGED <<av, self_result, wire, verOthers>>

\* RSET: a failure of the command is swallowed; the connection closes after
HsRset(c) ==
    /\ sv[c].pc = "rset"
    /\ sv' = [sv EXCEPT ![c].sent = Append(@, "RSET"),
                        ![c].pc = "closed"]
    /\ UNCHANGED <<av, self_result, wire, verOthers>>

HsInit == VerInit

HsNext ==
    \E c \in Calls :
        \/ HsConnect(c)
        \/ HsEhlo(c)
        \/ HsMail(c)
        \/ HsRcpt(c)
        \/ HsProbe(c)
        \/ HsRset(c)

HsSpec == HsInit /\ [][HsNext]_vars

\* the commands of a connection so far
SentOn(c) == IF sv[c].pc = "idle" THEN <<>> ELSE sv[c].sent

\* EHLO, then MAIL FROM, then RCPT TO
HandshakeOrder(s) ==
    /\ Len(s) >= 1 => s[1] = "EHLO"
    /\ Len(s) >= 2 => s[2] = "MAIL FROM"
    /\ Len(s) >= 3 => s[3] = "RCPT TO"
    /\ \A i \in 4..Len(s) : s[i] \in {"RCPT TO probe", "RSET"}

\* a probe is sent only when an RSET stands between it and the target's RCPT
ProbeAfterReset(s) ==
    \A i \in 1..Len(s) :
        s[i] = "RCPT TO probe" =>
            \E k \in 1..(i - 1) :
                /\ s[k] = "RSET"
                /\ \E j \in 1..(k - 1) : s[j] = "RCPT TO"

\* on a closed connection an RSET follows every answered probe
ResetFollowsProbes(c) ==
    (sv[c].pc = "closed" /\ sv[c].answer \notin {"none", "timeout"}) =>
        \A i \in 1..Len(sv[c].sent) :
            sv[c].sent[i] \in {"RCPT TO", "RCPT TO probe"} =>
                \E k \in (i + 1)..Len(sv[c].sent) : sv[c].sent[k] = "RSET"

\* C21: the commands go out in the order EHLO, MAIL FROM, RCPT TO; the RCPT
\* TO of the silent catch-all probe is never sent while the target's RCPT is
\* still un-reset on the connection; and every probe, accepted, refused or
\* greylisted, is followed by an RSET.
C21_HandshakeOrderAndResets ==
    \A c \in Calls :
        /\ HandshakeOrder(SentOn(c))
        /\ ProbeAfterReset(SentOn(c))
        /\ ResetFollowsProbes(c)

\* the parts of C21 that hold: the order, and an RSET after every probe
C21_OrderAndFinalReset ==
    \A c \in Calls :
        /\ HandshakeOrder(SentOn(c))
        /\ ResetFollowsProbes(c)

-----------------------------------------------------------------------------
(* Which addresses extraction accepts (discovery/service.py,               *)
(*  discovery/extractor.py)                                                *)

\* addresses met on the pages of the target d.io: on the target, on a
\* subdomain, at a personal-email provider, on a domain that ends with the
\* target's characters, on an unrelated domain, and one with two "@"
ExtractionPool ==
    { <<"j", "o", "@", "d", ".", "i", "o">>,
      <<"j", "o", "@", "m", ".", "d", ".", "i", "o">>,
      <<"j", "o", "@", "g", "m", "a", "i", "l", ".", "c", "o", "m">>,
      <<"j", "o", "@", "x", "d", ".", "i", "o">>,
      <<"j", "o", "@", "b", ".", "c", "o">>,
      <<"a", "@", "b", "@", "d", ".", "i", "o">> }

\* EmailExtractor._is_valid_work_email; a role-based local part is flagged
\* and accepted all the same
IsValidWorkEmail(email, domain) ==
    IF Count(email, "@") # 1 THEN FALSE
    ELSE LET email_domain == AfterChar(email, "@") IN
         /\ EndsWith(email_domain, domain)
         /\ email_domain \notin GENERIC_DOMAINS

ExtractInit ==
    /\ discovered_emails = <<>>
    /\ pages_crawled = 0
    /\ seen_on = [k \in KeyPool |-> 0]
    /\ spc = "extract"
    /\ all_discovered = <<>>
    /\ response = [status |-> "none"]
    /\ SearchOthersIdle

\* PublicDiscoveryEngine._extract_from_html on a page that carries one address
EngineExtract ==
    /\ spc = "extract"
    /\ pages_crawled < MaxPages
    /\ \E email \in ExtractionPool, where \in PagePlacements,
          contact_url \in BOOLEAN :
          discovered_emails' =
              ExtractFromHtml(discovered_emails, email, where, contact_url)
    /\ pages_crawled' = pages_crawled + 1
    /\ UNCHANGED <<seen_on, spc, all_discovered, response, searchOthers>>

\* EmailExtractor._extract_emails on a text that carries one address;
\* all_discovered stands for the extractor's set self.emails
ExtractorExtract ==
    /\ spc = "extract"
    /\ pages_crawled < MaxPages
    /\ \E email \in ExtractionPool :
          LET e == LowerStr(email) IN
          all_discovered' =
              IF IsValidWorkEmail(e, TargetDomain)
                 /\ \A i \in 1..Len(all_discovered) : all_discovered[i] # e
              THEN Append(all_discovered, e)
              ELSE all_discovered
    /\ pages_crawled' = pages_crawled + 1
    /\ UNCHANGED <<discovered_emails, seen_on, spc, response, searchOthers>>

ExtractNext == EngineExtract \/ ExtractorExtract

ExtractSpec == ExtractInit /\ [][ExtractNext]_vars

\* the target domain or a true subdomain of it
OnTarget(domain) ==
    domain = TargetDomain \/ EndsWith(domain, <<".">> \o TargetDomain)

AcceptableAddress(email) ==
    /\ Count(email, "@") = 1
    /\ OnTarget(AfterChar(email, "@")) \/ AfterChar(email, "@") \in GENERIC_DOMAINS

\* C25: every address accepted by extraction has exactly one "@" and a
\* domain that is the target domain, a true subdomain of it or a known
\* personal-email provider; an address on any other domain, one that merely
\* ends with the target's characters included, is never added.
C25_OnlyTargetOrPersonalDomains ==
    /\ \A i \in 1..Len(discovered_emails) :
          AcceptableAddress(discovered_emails[i].email)
    /\ \A i \in 1..Len(all_discovered) :
          AcceptableAddress(all_discovered[i])

\* the part of C25 that holds: exactly one "@" in every accepted address
C25_ExactlyOneAt ==
    /\ \A i \in 1..Len(discovered_emails) :
          Count(discovered_emails[i].email, "@") = 1
    /\ \A i \in 1..Len(all_discovered) : Count(all_discovered[i], "@") = 1

-----------------------------------------------------------------------------
(* The fan-out of PublicDiscoveryEngine._crawl_all_pages: one task per     *)
(* catalog path behind asyncio.Semaphore(5); a crawled page starts the     *)
(* fetches of its contact links itself (discovery/service.py)              *)

CrawlSemaphoreLimit == 5

ContactLinkLimit == 3

\* tasks = [limited_crawl(url) for the catalog paths not crawled yet]
FanStart ==
    /\ bpc = "idle"
    /\ \E n \in 1..MaxBatch :
          tasks' = [i \in 1..n |-> [pc |-> "waiting", links |-> 0]]
    /\ bpc' = "gathering"
    /\ UNCHANGED <<bsem, clean_results, batchOthers>>

\* async with semaphore: the task waits until a slot is free, then
\* _crawl_page sends its request
FanAcquire(i) ==
    /\ bpc = "gathering"
    /\ i <= Len(tasks)
    /\ tasks[i].pc = "waiting"
    /\ bsem < CrawlSemaphoreLimit
    /\ bsem' = bsem + 1
    /\ tasks' = [tasks EXCEPT ![i].pc = "fetching"]
    /\ UNCHANGED <<clean_results, bpc, batchOthers>>

\* the page answers: a failure or a page without contact links ends
\* _crawl_page; otherwise _find_contact_links gathers _crawl_page for up to
\* three links, which send their requests at once
FanPageAnswers(i) ==
    /\ bpc = "gathering"
    /\ i <= Len(tasks)
    /\ tasks[i].pc = "fetching"
    /\ \E k \in 0..ContactLinkLimit :
          tasks' = [tasks EXCEPT ![i].pc = IF k = 0 THEN "sleeping" ELSE "links",
                                 ![i].links = k]
    /\ UNCHANGED <<bsem, clean_results, bpc, batchOthers>>

\* the fetch of one contact link ends; with the last one the gather of
\* _find_contact_links returns and _crawl_page ends
FanLinkFinish(i) ==
    /\ bpc = "gathering"
    /\ i <= Len(tasks)
    /\ tasks[i].pc = "links"
    /\ tasks' = [tasks EXCEPT ![i].links = @ - 1,
                              ![i].pc = IF tasks[i].links = 1 THEN "sleeping"
                                        ELSE "links"]
    /\ UNCHANGED <<bsem, clean_results, bpc, batchOthers>>

\* the small delay is over: the semaphore is released
FanRelease(i) ==
    /\ bpc = "gathering"
    /\ i <= Len(tasks)
    /\ tasks[i].pc = "sleeping"
    /\ tasks' = [tasks EXCEPT ![i].pc = "done"]
    /\ bsem' = bsem - 1
    /\ UNCHANGED <<clean_results, bpc, batchOthers>>

\* asyncio.gather(*tasks, return_exceptions=True) returns
FanReturn ==
    /\ bpc = "gathering"
    /\ \A i \in 1..Len(tasks) : tasks[i].pc = "done"
    /\ bpc' = "returned"
    /\ UNCHANGED <<tasks, bsem, clean_results, batchOthers>>

FanInit == BatchInit

FanNext ==
    \/ FanStart
    \/ \E i \in 1..MaxBatch :
          FanAcquire(i) \/ FanPageAnswers(i) \/ FanLinkFinish(i) \/ FanRelease(i)
    \/ FanReturn

FanSpec == FanInit /\ [][FanNext]_vars

RECURSIVE SumLinks(_)
SumLinks(k) == IF k = 0 THEN 0 ELSE tasks[k].links + SumLinks(k - 1)

\* requests sent and not yet answered: catalog pages and contact links
FetchesInProgress ==
    Cardinality({i \in 1..Len(tasks) : tasks[i].pc = "fetching"})
    + SumLinks(Len(tasks))

\* tasks inside the semaphore
InsideGate ==
    {i \in 1..Len(tasks) : tasks[i].pc \in {"fetching", "links", "sleeping"}}

C22_CatalogTasksGated ==
    /\ Cardinality(InsideGate) <= CrawlSemaphoreLimit
    /\ Cardinality(InsideGate) = bsem
    /\ bpc = "returned" => \A i \in 1..Len(tasks) : tasks[i].pc = "done"

-----------------------------------------------------------------------------
(* The per-domain gates of the crawler: the module-level dictionaries      *)
(* _global_domain_semaphores and _domain_rate_limiters of                  *)
(* discovery/crawler.py, used by concurrent fetch_page calls of several    *)
(* WebCrawler instances.  An object is its index in the sequence of the    *)
(* objects constructed so far; a dictionary maps a domain to such an index *)
(* and to 0 while the key is absent.  sem_holders holds the two            *)
(* dictionaries and the objects, fetch the frame of each call.             *)

MaxGateCalls == 4

GateCalls == 1..MaxGateCalls

GateDomains == {"a.io", "b.io"}

\* the WebCrawler instance a call is made on
CrawlerOf(c) == (c % 2) + 1

\* the semaphore is constructed on every call
DomainUnknownAlways(registry, domain) == TRUE

\* domain not in _global_domain_semaphores / _domain_rate_limiters
DomainUnknown(registry, domain) == registry[domain] = 0

GateInit ==
    /\ fetch = [c \in GateCalls |-> IdleFrame]
    /\ sem_holders = [semaphores |-> [d \in GateDomains |-> 0],
                      sem_objects |-> <<>>,
                      limiters |-> [d \in GateDomains |-> 0],
                      limiter_objects |-> <<>>,
                      used |-> {}]
    /\ CrawlOthersIdle

\* fetch_page is called: domain = urlparse(url).netloc
GateStart(c) ==
    /\ fetch[c].pc = "idle"
    /\ \E d \in GateDomains :
          /\ fetch' = [fetch EXCEPT ![c] =
                          [pc |-> "get_semaphore", domain |-> d,
                           crawler |-> CrawlerOf(c), semaphore |-> 0,
                           limiter |-> 0]]
          /\ sem_holders' = [sem_holders EXCEPT !.used = @ \cup {d}]
    /\ UNCHANGED crawlOthers

\* _get_domain_semaphore: nothing is awaited while _semaphore_lock is held,
\* so the lock is free whenever a call reaches it
GetDomainSemaphore(c) ==
    /\ fetch[c].pc = "get_semaphore"
    /\ LET d == fetch[c].domain
           make == DomainUnknown(sem_holders.semaphores, d)
           objs == IF make
                   THEN Append(sem_holders.sem_objects,
                               [domain |-> d, holders |-> 0])
                   ELSE sem_holders.sem_objects
           id == IF make THEN Len(objs) ELSE sem_holders.semaphores[d]
       IN /\ sem_holders' = [sem_holders EXCEPT !.sem_objects = objs,
                                                 !.semaphores[d] = id]
          /\ fetch' = [fetch EXCEPT ![c].semaphore = id, ![c].pc = "acquire"]
    /\ UNCHANGED crawlOthers

\* async with semaphore, then the lookup of the rate limiter, which is
\* constructed when the domain has none; the call goes on to limiter.wait()
GateEnter(c) ==
    /\ fetch[c].pc = "acquire"
    /\ sem_holders.sem_objects[fetch[c].semaphore].holders < DomainSemaphoreLimit
    /\ LET d == fetch[c].domain
           make == DomainUnknown(sem_holders.limiters, d)
           lims == IF make
                   THEN Append(sem_holders.limiter_objects,
                               [domain |-> d, locked |-> FALSE])
                   ELSE sem_holders.limiter_objects
           id == IF make THEN Len(lims) ELSE sem_holders.limiters[d]
       IN /\ sem_holders' =
                 [sem_holders EXCEPT
                     !.sem_objects[fetch[c].semaphore].holders = @ + 1,
                     !.limiter_objects = lims,
                     !.limiters[d] = id]
          /\ fetch' = [fetch EXCEPT ![c].limiter = id, ![c].pc = "limiter_wait"]
    /\ UNCHANGED crawlOthers

\* DomainRateLimiter.wait: async with self.lock, and the sleep
LimiterLock(c) ==
    /\ fetch[c].pc = "limiter_wait"
    /\ ~sem_holders.limiter_objects[fetch[c].limiter].locked
    /\ sem_holders' =
          [sem_holders EXCEPT !.limiter_objects[fetch[c].limiter].locked = TRUE]
    /\ fetch' = [fetch EXCEPT ![c].pc = "limiter_locked"]
    /\ UNCHANGED crawlOthers

\* last_request_time is set and the lock of the limiter released
LimiterUnlock(c) ==
    /\ fetch[c].pc = "limiter_locked"
    /\ sem_holders' =
          [sem_holders EXCEPT !.limiter_objects[fetch[c].limiter].locked = FALSE]
    /\ fetch' = [fetch EXCEPT ![c].pc = "body"]
    /\ UNCHANGED crawlOthers

\* the rest of the gated section ends, by a return or an exception: the
\* semaphore is released and fetch_page returns
GateLeave(c) ==
    /\ fetch[c].pc = "body"
    /\ sem_holders' =
          [sem_holders EXCEPT !.sem_objects[fetch[c].semaphore].holders = @ - 1]
    /\ fetch' = [fetch EXCEPT ![c] = IdleFrame]
    /\ UNCHANGED crawlOthers

GateNext ==
    \E c \in GateCalls :
        \/ GateStart(c)
        \/ GetDomainSemaphore(c)
        \/ GateEnter(c)
        \/ LimiterLock(c)
        \/ LimiterUnlock(c)
        \/ GateLeave(c)

GateSpec == GateInit /\ [][GateNext]_vars

GatedPcs == {"limiter_wait", "limiter_locked", "body"}

\* the calls for a domain that are inside async with semaphore
InGatedSection(d) ==
    {c \in GateCalls : fetch[c].pc \in GatedPcs /\ fetch[c].domain = d}

ObjectsFor(objs, d) == {i \in 1..Len(objs) : objs[i].domain = d}

\* one dictionary and its objects: at most one object per domain, made
\* only for a domain that was used, and the key of a domain maps to it
OnePerDomain(registry, objs) ==
    \A d \in GateDomains :
        /\ Cardinality(ObjectsFor(objs, d)) <= 1
        /\ ObjectsFor(objs, d) # {} => d \in sem_holders.used
        /\ ObjectsFor(objs, d) = IF registry[d] = 0 THEN {} ELSE {registry[d]}

\* C23: for each domain exactly one semaphore and one rate limiter are ever
\* created, lazily on first use; they are shared by the calls of every
\* WebCrawler instance and never replaced or removed; under every
\* interleaving of concurrent fetch_page calls at most 3 calls for the same
\* domain are inside the gated section.
C23_OneGatePerDomain ==
    /\ OnePerDomain(sem_holders.semaphores, sem_holders.sem_objects)
    /\ OnePerDomain(sem_holders.limiters, sem_holders.limiter_objects)
    /\ \A c \in GateCalls :
          /\ fetch[c].pc \in GatedPcs \cup {"acquire"} =>
                fetch[c].semaphore = sem_holders.semaphores[fetch[c].domain]
                /\ fetch[c].semaphore # 0
          /\ fetch[c].pc \in GatedPcs =>
                fetch[c].limiter = sem_holders.limiters[fetch[c].domain]
                /\ fetch[c].limiter # 0
    /\ \A d \in GateDomains :
          Cardinality(InGatedSection(d)) <= DomainSemaphoreLimit

\* dictionaries only grow: a key once set keeps its object
C23_NeverReplaced ==
    [][\A d \in GateDomains :
          /\ sem_holders.semaphores[d] # 0 =>
                sem_holders'.semaphores[d] = sem_holders.semaphores[d]
          /\ sem_holders.limiters[d] # 0 =>
                sem_holders'.limiters[d] = sem_holders.limiters[d]]_vars

\* three calls of two crawler instances are inside the gate of one domain
\* and a fourth call for that domain waits for the semaphore
C23_Witness ==
    \E d \in GateDomains :
        /\ Cardinality(InGatedSection(d)) = DomainSemaphoreLimit
        /\ \E a, b \in InGatedSection(d) : fetch[a].crawler # fetch[b].crawler
        /\ \E c \in GateCalls : fetch[c].pc = "acquire" /\ fetch[c].domain = d

====
